---- MODULE Spec2Model ----
(***************************************************************************)
(* Credit-triggered hedge rebalancing engine of Aptgrameen:                *)
(*   RateLimiter        frontend/src/lib/rate-limiter/RateLimiter.ts       *)
(*   SmartCache         unnamed/part_006                                   *)
(*   HedgeService       frontend/src/lib/hedge/HedgeService.ts             *)
(*   CreditMonitor      unnamed/part_007                                   *)
(*   HedgeContractService / BatchProcessor                                 *)
(*                      frontend/src/lib/contracts/HedgeContractService.ts *)
(*   PriceCache         unnamed/part_006                                   *)
(*   CacheManager       frontend/src/lib/move-agent/cache-manager.ts       *)
(*                                                                         *)
(* JavaScript numbers are modelled as exact rationals [n, d] in lowest     *)
(* terms; d = 0 stands for `undefined`.  Where the rounding of the         *)
(* arithmetic matters (the refill of a token bucket, SpecRefill) they are  *)
(* IEEE-754 doubles [m, e] with a 53-bit mantissa, rounded to nearest,     *)
(* ties to even.  Time is Date.now() in ms.                                *)
(* An async method is a record with a position (pc); one action runs the   *)
(* method from one suspension point (a pending network call or timer) to   *)
(* the next.                                                               *)
(***************************************************************************)
EXTENDS Integers, Sequences, FiniteSets, TLC

(* ---------------------------------------------------------------- numbers *)

Abs(x) == IF x < 0 THEN -x ELSE x

RECURSIVE GCD(_, _)
GCD(a, b) == IF b = 0 THEN a ELSE GCD(b, a % b)

\* n/d in lowest terms with a positive denominator
Reduce(n, d, g) == [n |-> n \div g, d |-> d \div g]
Rat(n, d) == Reduce(n, d, IF d < 0 THEN -GCD(Abs(n), Abs(d)) ELSE GCD(Abs(n), Abs(d)))

Zero == [n |-> 0, d |-> 1]
Undefined == [n |-> 0, d |-> 0]
Num(i) == [n |-> i, d |-> 1]
RAdd(x, y) == Rat(x.n * y.d + y.n * x.d, x.d * y.d)
RSub(x, y) == Rat(x.n * y.d - y.n * x.d, x.d * y.d)
RMul(x, y) == Rat(x.n * y.n, x.d * y.d)
RDiv(x, y) == Rat(x.n * y.d, x.d * y.n)
RLe(x, y) == x.n * y.d <= y.n * x.d
RLt(x, y) == x.n * y.d < y.n * x.d
RMin(x, y) == IF RLe(x, y) THEN x ELSE y
IsInt(x) == x.d = 1

(* ------------------------------------------------- numbers: IEEE-754 doubles *)

\* Where the last bit of a JavaScript number matters, the number is a
\* binary64 value >= 0: [m, e] stands for m * 2^e, with m a sequence of 53
\* bits, most significant first and starting with 1, or the empty sequence
\* for 0.  Every operation rounds its exact result to nearest, ties to even.

Zeros(k) == [i \in 1 .. k |-> 0]

RECURSIVE BitsOf(_)
BitsOf(n) == IF n = 0 THEN <<>> ELSE Append(BitsOf(n \div 2), n % 2)

\* b without its leading zeros
Strip(b) ==
    IF \A i \in 1 .. Len(b) : b[i] = 0 THEN <<>>
    ELSE SubSeq(b, CHOOSE i \in 1 .. Len(b) : b[i] = 1 /\ \A j \in 1 .. i - 1 : b[j] = 0,
                Len(b))

PadTo(b, k) == Zeros(k - Len(b)) \o b

\* The operations on bit sequences work on a range lo .. hi of bits, one half
\* after the other.

\* bits lo .. hi of a + b, and the carry out of them, given the carry c into
\* bit hi
RECURSIVE AddRange(_, _, _, _, _)
AddRange(a, b, lo, hi, c) ==
    IF lo = hi
    THEN [bits |-> <<(a[lo] + b[lo] + c) % 2>>, carry |-> (a[lo] + b[lo] + c) \div 2]
    ELSE LET low == AddRange(a, b, (lo + hi) \div 2 + 1, hi, c)
             high == IF low.carry = 1 THEN AddRange(a, b, lo, (lo + hi) \div 2, 1)
                     ELSE AddRange(a, b, lo, (lo + hi) \div 2, 0)
         IN  [bits |-> high.bits \o low.bits, carry |-> high.carry]

AddPadded(a, b) ==
    IF Len(a) = 0 THEN <<>>
    ELSE LET r == AddRange(a, b, 1, Len(a), 0)
         IN  IF r.carry = 1 THEN <<1>> \o r.bits ELSE r.bits

BAdd(a, b) ==
    AddPadded(PadTo(a, IF Len(a) < Len(b) THEN Len(b) ELSE Len(a)),
              PadTo(b, IF Len(a) < Len(b) THEN Len(b) ELSE Len(a)))

\* bits lo .. hi of a - b, and the borrow out of them, given the borrow c
\* from bit hi
RECURSIVE SubRange(_, _, _, _, _)
SubRange(a, b, lo, hi, c) ==
    IF lo = hi
    THEN [bits |-> <<(a[lo] - b[lo] - c + 2) % 2>>,
          carry |-> IF a[lo] - b[lo] - c < 0 THEN 1 ELSE 0]
    ELSE LET low == SubRange(a, b, (lo + hi) \div 2 + 1, hi, c)
             high == IF low.carry = 1 THEN SubRange(a, b, lo, (lo + hi) \div 2, 1)
                     ELSE SubRange(a, b, lo, (lo + hi) \div 2, 0)
         IN  [bits |-> high.bits \o low.bits, carry |-> high.carry]

\* a - b for a >= b
BSub(a, b) ==
    IF Len(a) = 0 THEN <<>> ELSE SubRange(a, PadTo(b, Len(a)), 1, Len(a), 0).bits

\* a * k for a small k: the sum of the shifts of a for the bits of k
RECURSIVE BMul(_, _)
BMul(a, k) ==
    IF k = 0 \/ Len(a) = 0 THEN <<>>
    ELSE IF k % 2 = 1 THEN BAdd(a, BMul(a, k \div 2) \o <<0>>)
    ELSE BMul(a, k \div 2) \o <<0>>

\* the quotient bits lo .. hi of a by a small k, and the remainder after
\* them, given the remainder r before bit lo
RECURSIVE DivRange(_, _, _, _, _)
DivRange(a, k, lo, hi, r) ==
    IF lo = hi
    THEN [q |-> <<(2 * r + a[lo]) \div k>>, r |-> (2 * r + a[lo]) % k]
    ELSE LET high == DivRange(a, k, lo, (lo + hi) \div 2, r)
             low == DivRange(a, k, (lo + hi) \div 2 + 1, hi, high.r)
         IN  [q |-> high.q \o low.q, r |-> low.r]

BDiv(a, k) == DivRange(a, k, 1, Len(a), 0)

\* a <= b for bit sequences without leading zeros
BLe(a, b) ==
    IF Len(a) # Len(b) THEN Len(a) < Len(b)
    ELSE \/ a = b
         \/ LET i == CHOOSE i \in 1 .. Len(a) :
                        a[i] # b[i] /\ \A j \in 1 .. i - 1 : a[j] = b[j]
            IN  a[i] < b[i]

DZero == [m |-> <<>>, e |-> 0]

\* The double nearest to b * 2^e, where b has no leading zeros; inexact says
\* that the exact value is above b * 2^e by less than 2^e
Rounded(b, e, inexact) ==
    IF Len(b) = 0 THEN DZero
    ELSE IF Len(b) <= 53 THEN [m |-> b \o Zeros(53 - Len(b)), e |-> e - (53 - Len(b))]
    ELSE LET top == SubSeq(b, 1, 53)
             up == /\ b[54] = 1
                   /\ \/ inexact
                      \/ \E j \in 55 .. Len(b) : b[j] = 1
                      \/ top[53] = 1
             inc == IF up THEN BAdd(top, <<1>>) ELSE top
         IN  IF Len(inc) = 54
             THEN [m |-> SubSeq(inc, 1, 53), e |-> e + (Len(b) - 53) + 1]
             ELSE [m |-> inc, e |-> e + (Len(b) - 53)]

\* the integer n >= 0 as a double
DNum(n) == Rounded(BitsOf(n), 0, FALSE)

\* n / k for integers n >= 0 and k > 0
DDiv(n, k) ==
    LET d == BDiv(BitsOf(n) \o Zeros(64), k)
    IN  Rounded(Strip(d.q), -64, d.r # 0)

\* x * k for an integer k > 0
DMul(x, k) == Rounded(Strip(BMul(x.m, k)), x.e, FALSE)

\* the bits of x when the last bit counts 2^e (e <= x.e)
AlignedTo(x, e) == IF x.m = <<>> THEN <<>> ELSE x.m \o Zeros(x.e - e)

LowerExp(x, y) ==
    IF x.m = <<>> THEN y.e ELSE IF y.m = <<>> THEN x.e
    ELSE IF x.e < y.e THEN x.e ELSE y.e

DAdd(x, y) ==
    Rounded(Strip(BAdd(AlignedTo(x, LowerExp(x, y)), AlignedTo(y, LowerExp(x, y)))),
            LowerExp(x, y), FALSE)

\* x - y for x >= y
DSub(x, y) ==
    Rounded(Strip(BSub(AlignedTo(x, LowerExp(x, y)), AlignedTo(y, LowerExp(x, y)))),
            LowerExp(x, y), FALSE)

DLe(x, y) == BLe(AlignedTo(x, LowerExp(x, y)), AlignedTo(y, LowerExp(x, y)))

DMin(x, y) == IF DLe(x, y) THEN x ELSE y

(* ---------------------------------------------------------- configuration *)

\* HedgeService.getInstance default config
creditScoreThreshold == 600
hedgeRatio == Rat(1, 2)
maxHedgeAmount == 100000
minCreditScoreToClose == 700
defaultRebalanceInterval == 60000

\* RateLimiter.getInstance default config; maxTokens is 100 there, and a
\* small bucket here, so that a few requests empty it
maxTokens == 1
refillRate == 10
refillInterval == 1000

\* SmartCache.getInstance default config (maxAge in ms)
cacheMaxAge == 1800000
\* CreditMonitorService.getInstance, the default config
monitorThreshold == 600
checkInterval == 60000
minCheckInterval == 10000
monitorMaxRetries == 3
\* BatchProcessor.getInstance, the default config
maxBatchSize == 10
maxRetries == 3
retryDelay == 1000
processingInterval == 5000

(* ------------------------------------------------------------------ bounds *)

MaxTime == 1          \* single milliseconds that pass
MaxCalls == 2         \* evaluateAndHedge calls made by clients
MaxJumps == 1         \* times that the clock passes the cache's maxAge
Expiry == cacheMaxAge + 1
Delays == {1, Expiry}

Borrowers == {"b1", "b2"}
Scores == {550, 600, 720}       \* scores clients pass to evaluateAndHedge
SourceScores == {0, 720}        \* scores the credit-score source returns
Unavailable == -1               \* stands for a credit-score source that does not answer
LoanAmounts == {50000}
Prices == {2000}
CallIds == {1, 2}               \* evaluateAndHedge calls in progress at once
MaxChecks == 2                  \* checkCreditScore invocations
MaxClock == 7                   \* the monitor's clock stops at MaxClock * minCheckInterval
CheckIds == {1, 2}              \* checkCreditScore invocations in progress at once
InitialScores == {650}          \* scores clients pass to startMonitoring
MaxMonitorCalls == 4            \* calls of startMonitoring, stopMonitoring, updateConfig
MaxTimers == 3                  \* interval timers made by setInterval
MaxObservers == 2               \* callbacks registered with onAlert
TickBorrowers == {"b1"}         \* the borrower whose ticks are followed
TickScores == {0, 620, 720}     \* scores the source returns while ticks are followed
TickChecks == 2                 \* checkCreditScore invocations while ticks are followed
TickClock == 12                 \* that clock stops at TickClock * minCheckInterval
RetryScores == {0, 720, Unavailable}
RetryChecks == 5                \* checkCreditScore invocations while retries are followed
DenialChecks == 3               \* checkCreditScore invocations while a denial is followed
MaxServiceCalls == 5            \* calls of updateConfig and destroy on the HedgeService
SmartMaxSize == 4               \* config.maxSize of the SmartCache whose sizes are followed
SmartMaxAge == 2                \* its config.maxAge (ms)
SmartCleanupInterval == 3       \* its config.cleanupInterval (ms)
SmartKeys == {"k1", "k2"}
SmartSizes == {2, 4, 6}         \* calculateSize(data) of the data that clients set
MaxSmartOps == 4                \* calls of set, get and delete on that cache
MaxSmartClock == 4              \* its clock stops there (ms), but for the waits of set
ServiceIntervals == {30000, 120000}   \* rebalanceInterval values given to updateConfig
MaxRefills == 1                 \* the limiter's clock stops at MaxRefills * refillInterval
ProcIds == {1, 2}               \* acquire and acquireBatch calls in progress at once
Costs == {-1, 1, 2}             \* the tokens argument of acquire
Timeouts == {0, 100}            \* the timeout argument of acquire and acquireBatch
ClearCalls == 3                 \* calls of acquire, acquireBatch and clear while clear is followed
ClearKeys == {"hedge"}          \* the key those calls are about
ClearCosts == {1, 2}
MaxTx == 2                      \* transactions added to the BatchProcessor
DrainBatchSize == 1             \* config.maxBatchSize of a BatchProcessor whose queue outgrows it
TxIds == 1 .. MaxTx
Priorities == {0, 1}
MaxBatches == 3                 \* the queue's clock stops at MaxBatches * processingInterval
MaxSubmissions == maxBatchSize  \* submissions of one batch
\* the close path of HedgeService: one borrower, prices that differ
CloseBorrowers == {"b1"}
CloseScores == {550}
ClosePrices == {1000, 2000}
priceMaxAge == 10000            \* getETHPrice: { maxAge: 10000 }
Waits == {priceMaxAge + 1, Expiry}
MaxWait == 1                    \* waits of either length on the close path
\* PriceCache.getInstance default config, and CacheManager
priceCacheMaxAge == 300000      \* maxAge: 5 * 60 * 1000
cleanupInterval == 60000
CACHE_DURATION == 300000

\* the TTL caches: keys, cached objects, and how often they are called
TtlKeys == {"k1", "k2"}
TtlData == {"v1", "v2"}
MaxCacheOps == 4
MaxCacheClock == CACHE_DURATION + 1
\* the bucket with tokens as doubles
defaultMaxTokens == 100         \* RateLimiter.getInstance default config
Costs64 == {10, 50}
MaxAcquires64 == 1
Steps64 == {1, 999}
Instants64 == {0, 1, 999}       \* the milliseconds of a second at which something happens
MaxClock64 == 11000
\* hedge_contract: the accounts that sign transactions, by the last byte of
\* their 32-byte address
Accounts == {1, 2, 255}
ChainBorrowers == {"borrower1"}
\* u64 values, as four 16-bit limbs, the lowest first
U64Max == <<65535, 65535, 65535, 65535>>
ChainAmounts == {<<0, 0, 0, 0>>, <<16960, 15, 0, 0>>, U64Max}    \* 0, 1000000, 2^64 - 1
ChainRatios == {0, 5000, 10001}
NewRatios == {0, 6000, 10001}
\* the block timestamps, in microseconds: 0, 1700000000000000 and
\* 1700000000000128
ChainTimes == <<<<0, 0, 0, 0>>, <<16384, 6174, 2596, 6>>, <<16512, 6174, 2596, 6>>>>
MaxTxs == 4                     \* transactions sent to hedge_contract
MaxStored == 2                  \* positions in one UserHedgeStore
OraclePrice == 1000000          \* price_oracle::get_price()
\* the arguments of calculateHedgeAmount called on its own
AmountLoans == {0, 1, 3, 1000, 50000, 100000, 200000, 300000, 400000, 1000000}
AmountScores == {-100, 0, 1, 300, 550, 599, 600, 601, 700, 850, 1200}

VARIABLES
    now,          \* Date.now()
    score,        \* the external credit-score source, per borrower
    positions,    \* HedgeService.positions (a Map: insertion-ordered)
    buckets,      \* RateLimiter.buckets
    stats,        \* RateLimiter.stats
    cache,        \* SmartCache.cache
    calls,        \* invocations of HedgeService.evaluateAndHedge
    started,      \* number of evaluateAndHedge calls made by clients
    sweep,        \* the invocation of HedgeService.rebalancePositions
    row,          \* history: sweeps that followed one another undisturbed
    monitoringMap,  \* CreditMonitorService.monitoringMap
    intervals,    \* the setInterval timers of startMonitoring, cleared ones included
    monitorCall,  \* history: the latest call of startMonitoring, stopMonitoring, updateConfig
    checks,       \* invocations of CreditMonitorService.checkCreditScore
    retryTimers,  \* the setTimeout timers of checkCreditScore's retries
    checksStarted,  \* number of checkCreditScore invocations so far
    alerts,       \* the alerts passed to notifyAlertCallbacks
    alertCallbacks,  \* CreditMonitorService.alertCallbacks, and what each was called with
    checkFailed,  \* the check_failed events given to eventTracker.trackEvent
    walletLog,    \* the payloads given to walletService.submitTransaction
    ledger,       \* the positions of the hedge_contract module's store
    procs,        \* invocations of RateLimiter.acquire (timed) and acquireBatch
    refillDue,    \* when RateLimiter's refill timer fires next
    queue,        \* BatchProcessor.queue: references to transactions
    txs,          \* the BatchTransaction objects
    processing,   \* BatchProcessor.processing
    batch,        \* the submissions of the processBatch in progress
    pushTimers,   \* the setTimeout timers that re-enqueue a transaction
    processDue,   \* when BatchProcessor's processing timer fires next
    probe,        \* the latest call of a function called on its own, with its result
    bucket64,     \* a RateLimiter bucket whose tokens are doubles
    drained,      \* history: when bucket64 was emptied, and the acquires since
    priceCache,   \* PriceCache.cache
    creditCache,  \* CacheManager.creditCache
    groupCache,   \* CacheManager.groupCache
    cleanupDue,   \* when PriceCache's cleanup timer fires next
    cacheOp,      \* history: the latest call on PriceCache or CacheManager
    userStores,   \* hedge_contract: the UserHedgeStore of each account
    hedgeStats,   \* hedge_contract: the HedgeStats at @aptgrameen
    chainTime,    \* timestamp::now_microseconds(), a u64
    lastTx,       \* history: the latest transaction sent to hedge_contract
    rebalanceTimers,    \* the setInterval timers of startRebalancing, cleared ones included
    rebalanceTimer,     \* HedgeService.rebalanceTimer: the id of a timer, or 0 for null
    rebalanceInterval,  \* HedgeService.config.rebalanceInterval
    serviceCalls, \* number of updateConfig and destroy calls on the HedgeService
    smartItems,   \* a SmartCache's Map, its entries in insertion order
    smartStats,   \* that SmartCache's stats.totalSize and stats.itemCount
    smartSet,     \* the invocation of that SmartCache's set
    smartCleanupDue,  \* when that SmartCache's cleanup timer fires next
    smartOps      \* number of calls made on that SmartCache

monitorVars == <<monitoringMap, intervals, monitorCall, checks, retryTimers, checksStarted,
                 alerts, alertCallbacks, checkFailed, walletLog, ledger>>
limiterVars == <<procs, refillDue>>
queueVars == <<queue, txs, processing, batch, pushTimers, processDue>>
ttlVars == <<priceCache, creditCache, groupCache, cleanupDue, cacheOp>>
chainVars == <<userStores, hedgeStats, chainTime, lastTx>>
serviceVars == <<rebalanceTimers, rebalanceTimer, rebalanceInterval, serviceCalls>>
smartVars == <<smartItems, smartStats, smartSet, smartCleanupDue, smartOps>>
lateVars == <<serviceVars, smartVars>>
pureVars == <<probe, bucket64, drained, ttlVars, chainVars, lateVars>>
\* what the steps of HedgeService leave alone
others == <<monitorVars, limiterVars, queueVars, pureVars>>
\* what the steps of the monitor leave alone, besides HedgeService's state
outsideMonitor == <<limiterVars, queueVars, pureVars>>
\* what the steps of the rate limiter's clients leave alone
outsideLimiter == <<score, positions, cache, calls, sweep, row, monitorVars, queueVars,
                    pureVars>>
\* what the steps of the BatchProcessor leave alone
outsideQueue == <<score, positions, buckets, stats, cache, calls, started, sweep, row,
                  monitorVars, limiterVars, pureVars>>
\* what the bucket with double tokens leaves alone
outsideRefill == <<score, positions, buckets, stats, cache, calls, started, sweep, row,
                   monitorVars, procs, queueVars, probe, ttlVars, chainVars, lateVars>>
\* what PriceCache and CacheManager leave alone
outsideTtl == <<score, positions, buckets, stats, cache, calls, started, sweep, row,
                monitorVars, limiterVars, queueVars, probe, bucket64, drained, chainVars,
                lateVars>>
\* what the transactions of hedge_contract leave alone
outsideChain == <<now, score, positions, buckets, stats, cache, calls, started, sweep, row,
                  monitorVars, limiterVars, queueVars, probe, bucket64, drained, ttlVars,
                  lateVars>>
\* what updateConfig and destroy of the HedgeService leave alone
outsideService == <<now, score, buckets, stats, cache, calls, started, sweep, row,
                    monitorVars, limiterVars, queueVars, probe, bucket64, drained, ttlVars,
                    chainVars, smartVars>>
\* what the SmartCache with sizes leaves alone, besides the clock
outsideSmart == <<score, positions, buckets, stats, cache, calls, started, sweep, row,
                  monitorVars, limiterVars, queueVars, probe, bucket64, drained, ttlVars,
                  chainVars, serviceVars>>
\* what a function called on its own leaves alone
outsidePure == <<now, score, positions, buckets, stats, cache, calls, started, sweep, row,
                 monitorVars, limiterVars, queueVars>>
vars == <<now, score, positions, buckets, stats, cache, calls, started, sweep, row,
          monitorVars, limiterVars, queueVars, pureVars>>

(* ------------------------------------------------------------- RateLimiter *)

RLKeys == {"hedge", "loan"}

NoBucket == [present |-> FALSE, tokens |-> Zero, lastRefill |-> 0]
NoStats ==
    [present |-> FALSE, totalRequests |-> 0, acceptedRequests |-> 0,
     rejectedRequests |-> 0, currentTokens |-> Zero]

\* lastRefillTime is written here and nowhere read or updated: left out
initStats ==
    [present |-> TRUE, totalRequests |-> 0, acceptedRequests |-> 0,
     rejectedRequests |-> 0, currentTokens |-> Num(maxTokens)]

refillBucket(bucket, t) ==
    LET timePassed == t - bucket.lastRefill
        tokensToAdd == RMul(Rat(timePassed, 1000), Num(refillRate))
    IN  [bucket EXCEPT !.tokens = RMin(Num(maxTokens), RAdd(bucket.tokens, tokensToAdd)),
                       !.lastRefill = t]

\* updateStats(key, field): counts only when the key has a stats entry
bumpStat(st, field) ==
    IF st.present THEN [st EXCEPT ![field] = @ + 1] ELSE st

\* bucket.tokens -= tokens, and the accepted request in the stats
accepted(filled, st, left) ==
    [ok |-> TRUE,
     bucket |-> [filled EXCEPT !.tokens = left],
     stats |-> IF st.present
               THEN [st EXCEPT !.acceptedRequests = @ + 1, !.currentTokens = left]
               ELSE st]

\* A deduction that wants more tokens in the bucket than the request costs
takeFromStrict(filled, st, tokens) ==
    IF RLt(Num(tokens), filled.tokens)
    THEN accepted(filled, st, RSub(filled.tokens, Num(tokens)))
    ELSE [ok |-> FALSE, bucket |-> filled, stats |-> st]

\* if (bucket.tokens >= tokens) on the refilled bucket
takeFrom(filled, st, tokens) ==
    IF RLe(Num(tokens), filled.tokens)
    THEN accepted(filled, st, RSub(filled.tokens, Num(tokens)))
    ELSE [ok |-> FALSE, bucket |-> filled, stats |-> st]

\* One pass of acquire's loop on bucket bk with stats st: refill, then deduct
\* and accept when the bucket holds enough
tryAcquire(bk, st, tokens, t) == takeFrom(refillBucket(bk, t), st, tokens)

\* The rate limiter (buckets bks, stats sts) after an acquire with timeout 0
\* whose only pass gave r
acquired(bks, sts, key, r) ==
    [ok |-> r.ok,
     buckets |-> [bks EXCEPT ![key] = r.bucket],
     stats |-> [sts EXCEPT ![key] =
                   IF r.ok THEN r.stats ELSE bumpStat(r.stats, "rejectedRequests")]]

\* acquire(key, tokens, timeout = 0) on buckets bks and stats sts: it runs to
\* completion without suspending.  A key without bucket gets a full one, and
\* stats.
acquireIn(bks, sts, key, tokens) ==
    IF bks[key].present
    THEN acquired(bks, sts, key,
                  tryAcquire(bks[key], bumpStat(sts[key], "totalRequests"), tokens, now))
    ELSE acquired(bks, sts, key,
                  tryAcquire([present |-> TRUE, tokens |-> Num(maxTokens),
                              lastRefill |-> now],
                             bumpStat(initStats, "totalRequests"), tokens, now))

acquire(key, tokens) == acquireIn(buckets, stats, key, tokens)

(* -------------------------------------------------------------- SmartCache *)

PriceKey == "ETH/USDC_price"
CreditKey(b) == "credit_score_" \o b
CacheKeys == {PriceKey} \cup {CreditKey(b) : b \in Borrowers}

NoItem == [present |-> FALSE, data |-> 0, timestamp |-> 0]

\* SmartCache.set(key, data): a third argument ({maxAge}) is not a parameter
\* of set and has no effect.
cacheSet(c, key, data, t) ==
    [c EXCEPT ![key] = [present |-> TRUE, data |-> data, timestamp |-> t]]

\* SmartCache.get(key): null (found = FALSE, data 0) when absent or older than config.maxAge, and
\* an expired item is deleted.
cacheGet(c, key, t) ==
    IF ~c[key].present THEN [found |-> FALSE, data |-> 0, cache |-> c]
    ELSE IF t - c[key].timestamp > cacheMaxAge
         THEN [found |-> FALSE, data |-> 0, cache |-> [c EXCEPT ![key] = NoItem]]
         ELSE [found |-> TRUE, data |-> c[key].data, cache |-> c]


(* ------------------------------------------------------------ HedgeService *)

\* `hedge_${Date.now()}_${borrowerId}`
PositionId(t, b) == [ts |-> t, borrowerId |-> b]

calculateHedgeAmount(loanAmount, creditScore) ==
    LET scoreAdjustment == Rat(creditScoreThreshold - creditScore, creditScoreThreshold)
        hedgeAmount == RMul(RMul(loanAmount, hedgeRatio), scoreAdjustment)
    IN  RMin(hedgeAmount, Num(maxHedgeAmount))

\* Map.set: replaces the value of a key already present, else appends
MapSet(m, p) ==
    IF \E i \in 1 .. Len(m) : m[i].id = p.id
    THEN [i \in 1 .. Len(m) |-> IF m[i].id = p.id THEN p ELSE m[i]]
    ELSE Append(m, p)

\* An invocation of evaluateAndHedge.  pc: "idle" (no invocation), "price"
\* (awaiting merkleService.getPrice), "order" (awaiting executeMarketOrder),
\* "done" (returned), "failed" (threw `error`).  tokenTaken, priceRead,
\* orderPlaced and inserted record what the invocation has done so far.
\* ticket: the rate limiter's count of accepted 'hedge' requests when it
\* admitted the invocation (0: not admitted, or over).
IdleCall ==
    [pc |-> "idle", origin |-> "", borrowerId |-> "", creditScore |-> 0,
     loanAmount |-> Zero, hedgeAmount |-> Zero, ethPrice |-> 0, error |-> "",
     tokenTaken |-> FALSE, priceRead |-> FALSE, orderPlaced |-> FALSE,
     inserted |-> FALSE, ticket |-> 0]

\* A free slot for an invocation among the invocations cl (0: none)
FreeIn(cl) ==
    IF \E c \in CallIds : cl[c].pc = "idle"
    THEN CHOOSE c \in CallIds :
            cl[c].pc = "idle" /\ \A e \in CallIds : cl[e].pc = "idle" => c <= e
    ELSE 0

\* The call has returned or thrown: its locals are gone, what it did stays
finished(call, pc, error) ==
    [call EXCEPT !.pc = pc, !.error = error, !.borrowerId = "", !.loanAmount = Zero,
                 !.hedgeAmount = Zero, !.ethPrice = 0, !.ticket = 0]

\* if (creditScore > this.config.creditScoreThreshold) return;
needsNoHedge(creditScore) == creditScore > creditScoreThreshold

\* evaluateAndHedge once admitted: calculateHedgeAmount and getETHPrice, whose
\* cache lookup returned cachedPrice (0: none), and on a cached price the
\* market order
proceedToOrder(call, cachedPrice) ==
    LET amt == calculateHedgeAmount(call.loanAmount, call.creditScore)
    IN  IF cachedPrice # 0
        THEN [call EXCEPT !.pc = "order", !.hedgeAmount = amt, !.priceRead = TRUE,
                          !.ethPrice = cachedPrice, !.orderPlaced = TRUE]
        ELSE [call EXCEPT !.pc = "price", !.hedgeAmount = amt, !.priceRead = TRUE]

\* An evaluateAndHedge that goes on whatever rateLimiter.acquire returned
afterAcquireUnchecked(call, canProceed, cachedPrice) ==
    proceedToOrder([call EXCEPT !.tokenTaken = TRUE], cachedPrice)

\* evaluateAndHedge after rateLimiter.acquire('hedge', 1) returned canProceed:
\* if (!canProceed) throw new Error('Rate limit exceeded for hedge operations')
afterAcquire(call, canProceed, cachedPrice) ==
    IF ~canProceed
    THEN finished(call, "failed", "RateLimit")
    ELSE proceedToOrder([call EXCEPT !.tokenTaken = TRUE], cachedPrice)

\* evaluateAndHedge of `call` past its threshold check, with the outcome a
\* of rateLimiter.acquire and the outcome g of the cache lookup
hedgeWith(call, a, g) ==
    [call |-> IF a.ok
              THEN [afterAcquire(call, a.ok, g.data)
                        EXCEPT !.ticket = a.stats["hedge"].acceptedRequests]
              ELSE afterAcquire(call, a.ok, g.data),
     buckets |-> a.buckets, stats |-> a.stats,
     cache |-> IF a.ok THEN g.cache ELSE cache]

newCall(origin, borrowerId, creditScore, loanAmount) ==
    [IdleCall EXCEPT !.origin = origin, !.borrowerId = borrowerId,
                     !.creditScore = creditScore, !.loanAmount = loanAmount]

\* evaluateAndHedge from its call to its first pending network request (or
\* to its end): the invocation, and the rate limiter and cache it leaves
evaluateAndHedge(origin, borrowerId, creditScore, loanAmount) ==
    IF needsNoHedge(creditScore)
    THEN [call |-> finished(newCall(origin, borrowerId, creditScore, loanAmount), "done", ""),
          buckets |-> buckets, stats |-> stats, cache |-> cache]
    ELSE hedgeWith(newCall(origin, borrowerId, creditScore, loanAmount),
                   acquire("hedge", 1), cacheGet(cache, PriceKey, now))

\* The invocation r of evaluateAndHedge takes slot c among the invocations cl
invoke(cl, c, r) ==
    /\ calls' = [cl EXCEPT ![c] = r.call]
    /\ buckets' = r.buckets
    /\ stats' = r.stats
    /\ cache' = r.cache

newPosition(call, t) ==
    [id |-> PositionId(t, call.borrowerId),
     openPrice |-> call.ethPrice,
     amount |-> call.hedgeAmount,
     timestamp |-> t,
     creditScore |-> call.creditScore,
     status |-> "open",
     pnl |-> Undefined]

(* rebalancePositions *)

\* An invocation of rebalancePositions.  pc: "idle", "price" (closePosition
\* awaits getPrice), "order" (closePosition awaits executeMarketOrder), "call"
\* (adjustHedgePosition awaits evaluateAndHedge `child`).  idx: the entry of
\* the Map the loop is at.  detached: the Map's entry for the position being
\* closed was replaced by Map.set while closePosition was suspended.
\* orders: the market orders this invocation has placed (those of its
\* evaluateAndHedge calls included).
IdleSweep ==
    [pc |-> "idle", idx |-> 0, price |-> 0, child |-> 0, detached |-> FALSE,
     orders |-> 0]

\* getCurrentCreditScore(positionId): the score of the position's borrower at
\* the credit-score source (the source is not implemented yet: 0)
getCurrentCreditScore(positionId) == score[positionId.borrowerId]

\* adjustHedgePosition: the additional amount to hedge (<= 0: nothing to do)
additionalAmount(position, newCreditScore) ==
    LET currentHedgeAmount == position.amount
        newHedgeAmount == calculateHedgeAmount(RDiv(currentHedgeAmount, hedgeRatio),
                                               newCreditScore)
    IN  RSub(newHedgeAmount, currentHedgeAmount)

shouldClose(position) ==
    getCurrentCreditScore(position.id) >= minCreditScoreToClose

shouldIncrease(position) ==
    /\ ~shouldClose(position)
    /\ getCurrentCreditScore(position.id) < position.creditScore
    /\ RLt(Zero, additionalAmount(position, getCurrentCreditScore(position.id)))

\* The loop of rebalancePositions passes over closed positions and positions
\* that need neither: the next entry it acts on, from entry `from` of Map m
nextEntry(m, from) ==
    LET hit == {i \in from .. Len(m) :
                    m[i].status = "open" /\ (shouldClose(m[i]) \/ shouldIncrease(m[i]))}
    IN  IF hit = {} THEN Len(m) + 1
        ELSE CHOOSE i \in hit : \A j \in hit : i <= j

\* closePosition of entry i, whose cache lookup for the price gave g
closeWith(sw, i, g) ==
    /\ cache' = g.cache
    /\ sweep' = IF g.data # 0
                 THEN [sw EXCEPT !.pc = "order", !.idx = i, !.price = g.data,
                                 !.detached = FALSE, !.orders = @ + 1]
                 ELSE [sw EXCEPT !.pc = "price", !.idx = i, !.price = 0,
                                 !.detached = FALSE]

\* adjustHedgePosition of position p, entry i, at current score cs
adjustWith(sw, i, p, cs, cl) ==
    /\ FreeIn(cl) # 0
    /\ invoke(cl, FreeIn(cl),
              evaluateAndHedge("rebalance", p.id.borrowerId, cs, additionalAmount(p, cs)))
    /\ sweep' = [sw EXCEPT !.pc = "call", !.idx = i, !.child = FreeIn(cl)]

\* The loop acts on entry i of Map m (past the end: it is over)
rebalanceAt(sw, m, i, cl) ==
    IF i > Len(m)
    THEN /\ sweep' = IdleSweep
         /\ calls' = cl
         /\ UNCHANGED <<buckets, stats, cache>>
    ELSE IF shouldClose(m[i])
    THEN /\ closeWith(sw, i, cacheGet(cache, PriceKey, now))
         /\ calls' = cl
         /\ UNCHANGED <<buckets, stats>>
    ELSE adjustWith(sw, i, m[i], getCurrentCreditScore(m[i].id), cl)

\* The loop runs from entry `from` of Map m to its next pending request or
\* to its end; sw is the invocation so far, cl the evaluateAndHedge
\* invocations in progress.
rebalanceFrom(sw, m, from, cl) == rebalanceAt(sw, m, nextEntry(m, from), cl)

\* A closePosition that computes the pnl with the two prices exchanged
closedPricesSwapped(position, currentPrice) ==
    [position EXCEPT
        !.status = "closed",
        !.pnl = RMul(position.amount,
                     RSub(Num(1), RDiv(Num(position.openPrice), Num(currentPrice))))]

\* A closePosition that computes the pnl and leaves the status as it is
closedStillOpen(position, currentPrice) ==
    [position EXCEPT
        !.pnl = RMul(position.amount,
                     RSub(Num(1), RDiv(Num(currentPrice), Num(position.openPrice))))]

\* position.status = 'closed'; position.pnl = amount * (1 - currentPrice / openPrice)
closed(position, currentPrice) ==
    [position EXCEPT
        !.status = "closed",
        !.pnl = RMul(position.amount,
                     RSub(Num(1), RDiv(Num(currentPrice), Num(position.openPrice))))]

\* row.n: how many sweeps have run since the last thing that was not part of
\* a sweep (2: two or more); row.failed: the sweep before the latest of them
\* had a request that threw; row.failing: the latest of them had.
Undisturbed == [n |-> 0, failed |-> FALSE, failing |-> FALSE]

(* ----------------------------------------------------------------- actions *)

\* A client calls evaluateAndHedge for a borrower of B with a score of S
CallFrom(B, S) ==
    /\ started < MaxCalls
    /\ FreeIn(calls) # 0
    /\ \E b \in B, s \in S, l \in LoanAmounts :
        invoke(calls, FreeIn(calls), evaluateAndHedge("api", b, s, Num(l)))
    /\ started' = started + 1
    /\ row' = Undisturbed
    /\ UNCHANGED <<now, score, positions, sweep>>
    /\ UNCHANGED others

\* A client calls evaluateAndHedge
CallEvaluateAndHedge == CallFrom(Borrowers, Scores)

\* An evaluateAndHedge of the sweep is part of the sweep; any other one
\* comes between two sweeps
rowAfter(c) == IF calls[c].origin = "rebalance" THEN row ELSE Undisturbed

\* merkleService.getPrice('ETH/USDC') returns a price of P: the price is
\* cached and the market order is submitted
PriceFetchedAt(c, P) ==
    /\ calls[c].pc = "price"
    /\ \E p \in P :
        /\ cache' = cacheSet(cache, PriceKey, p, now)
        /\ calls' = [calls EXCEPT ![c].pc = "order", ![c].ethPrice = p,
                                  ![c].orderPlaced = TRUE]
    /\ row' = rowAfter(c)
    /\ UNCHANGED <<now, score, positions, buckets, stats, started, sweep>>
    /\ UNCHANGED others

PriceFetched(c) == PriceFetchedAt(c, Prices)

\* merkleService.getPrice throws
PriceFailed(c) ==
    /\ calls[c].pc = "price"
    /\ calls' = [calls EXCEPT ![c] = finished(calls[c], "failed", "Price")]
    /\ row' = rowAfter(c)
    /\ UNCHANGED <<now, score, positions, buckets, stats, cache, started, sweep>>
    /\ UNCHANGED others

\* merkleService.executeMarketOrder returns: the position is recorded.  A
\* closePosition that is suspended on the position of the same id keeps the
\* object this Map.set replaces.
OrderFilled(c) ==
    /\ calls[c].pc = "order"
    /\ positions' = MapSet(positions, newPosition(calls[c], now))
    /\ calls' = [calls EXCEPT ![c] = finished([calls[c] EXCEPT !.inserted = TRUE], "done", "")]
    /\ sweep' = IF /\ sweep.pc \in {"price", "order"}
                    /\ positions[sweep.idx].id = PositionId(now, calls[c].borrowerId)
                 THEN [sweep EXCEPT !.detached = TRUE]
                 ELSE sweep
    /\ row' = rowAfter(c)
    /\ UNCHANGED <<now, score, buckets, stats, cache, started>>
    /\ UNCHANGED others

\* merkleService.executeMarketOrder throws
OrderFailed(c) ==
    /\ calls[c].pc = "order"
    /\ calls' = [calls EXCEPT ![c] = finished(calls[c], "failed", "Market")]
    /\ row' = rowAfter(c)
    /\ UNCHANGED <<now, score, positions, buckets, stats, cache, started, sweep>>
    /\ UNCHANGED others

\* The caller of a finished evaluateAndHedge resumes: a client, or
\* adjustHedgePosition, with which the loop of rebalancePositions goes on
Settle(c) ==
    /\ calls[c].pc \in {"done", "failed"}
    /\ \/ /\ calls[c].origin = "api"
          /\ calls' = [calls EXCEPT ![c] = IdleCall]
          /\ UNCHANGED <<buckets, stats, cache, sweep>>
       \/ /\ calls[c].origin = "rebalance"
          /\ sweep.pc = "call" /\ sweep.child = c
          /\ rebalanceFrom([sweep EXCEPT
                                !.orders = @ + (IF calls[c].orderPlaced THEN 1 ELSE 0)],
                           positions, sweep.idx + 1, [calls EXCEPT ![c] = IdleCall])
    /\ row' = IF calls[c].origin = "rebalance" /\ calls[c].pc = "failed"
              THEN [row EXCEPT !.failing = TRUE] ELSE row
    /\ UNCHANGED <<now, score, positions, started>>
    /\ UNCHANGED others

\* The rebalance timer fires
SweepStart ==
    /\ sweep.pc = "idle"
    /\ row' = [n |-> IF row.n < 2 THEN row.n + 1 ELSE 2, failed |-> row.failing,
               failing |-> FALSE]
    /\ rebalanceFrom(IdleSweep, positions, 1, calls)
    /\ UNCHANGED <<now, score, positions, started>>
    /\ UNCHANGED others

\* closePosition: getPrice returns a price of P, the price is cached, the
\* order submitted
SweepPriceFetchedAt(P) ==
    /\ sweep.pc = "price"
    /\ \E p \in P :
        /\ cache' = cacheSet(cache, PriceKey, p, now)
        /\ sweep' = [sweep EXCEPT !.pc = "order", !.price = p, !.orders = @ + 1]
    /\ UNCHANGED <<now, score, positions, buckets, stats, calls, started, row>>
    /\ UNCHANGED others

SweepPriceFetched == SweepPriceFetchedAt(Prices)

\* closePosition: getPrice throws; the loop logs it and goes on
SweepPriceFailed ==
    /\ sweep.pc = "price"
    /\ rebalanceFrom(sweep, positions, sweep.idx + 1, calls)
    /\ row' = [row EXCEPT !.failing = TRUE]
    /\ UNCHANGED <<now, score, positions, started>>
    /\ UNCHANGED others

\* closePosition: the order returns, the position is closed; the loop goes on
SweepOrderFilled ==
    /\ sweep.pc = "order"
    /\ positions' = IF sweep.detached THEN positions
                     ELSE [positions EXCEPT ![sweep.idx] = closed(@, sweep.price)]
    /\ rebalanceFrom(sweep, positions', sweep.idx + 1, calls)
    /\ UNCHANGED <<now, score, started, row>>
    /\ UNCHANGED others

\* A closePosition that has set status and pnl before its order throws
SweepOrderFailedClosed ==
    /\ sweep.pc = "order"
    /\ positions' = [positions EXCEPT ![sweep.idx] = closed(@, sweep.price)]
    /\ rebalanceFrom(sweep, positions', sweep.idx + 1, calls)
    /\ row' = [row EXCEPT !.failing = TRUE]
    /\ UNCHANGED <<now, score, started>>
    /\ UNCHANGED others

\* closePosition: the order throws; the loop logs it and goes on
SweepOrderFailed ==
    /\ sweep.pc = "order"
    /\ rebalanceFrom(sweep, positions, sweep.idx + 1, calls)
    /\ row' = [row EXCEPT !.failing = TRUE]
    /\ UNCHANGED <<now, score, positions, started>>
    /\ UNCHANGED others

(* ------------------------------------------------------------- environment *)

\* Time passes: a millisecond, or long enough for every cache item to expire
Tick ==
    /\ \E d \in Delays :
        /\ IF d = 1 THEN now % Expiry < MaxTime ELSE now \div Expiry < MaxJumps
        /\ now' = now + d
    /\ UNCHANGED <<score, positions, buckets, stats, cache, calls, started, sweep, row>>
    /\ UNCHANGED others

\* The score source reports another score for a borrower of B
ScoreChangeOf(B, S) ==
    /\ \E b \in B, s \in S :
        /\ score[b] # s
        /\ score' = [score EXCEPT ![b] = s]
    /\ row' = Undisturbed
    /\ UNCHANGED <<now, positions, buckets, stats, cache, calls, started, sweep>>
    /\ UNCHANGED others

ScoreChange == ScoreChangeOf(Borrowers, SourceScores)

\* Time passes: long enough for a price to be stale, or for every cache item
\* to expire
Wait ==
    /\ \E d \in Waits :
        /\ IF d = Expiry THEN now \div Expiry < MaxWait
                         ELSE (now % Expiry) \div d < MaxWait
        /\ now' = now + d
    /\ UNCHANGED <<score, positions, buckets, stats, cache, calls, started, sweep, row>>
    /\ UNCHANGED others

(* ---------------------------------------------------- CreditMonitorService *)

\* armed: the Map has the borrower; id: the interval timer stored for it
NotMonitored == [armed |-> FALSE, id |-> 0]

\* n counts the calls
NoMonitorCall == [n |-> 0, fn |-> "none", borrowerId |-> ""]

\* the id of the next timer that setInterval makes
FreshTimer == IF Cardinality(intervals) < MaxTimers THEN Cardinality(intervals) + 1 ELSE 0

\* clearInterval(id)
clearInterval(timers, id) ==
    {IF t.id = id THEN [t EXCEPT !.cleared = TRUE] ELSE t : t \in timers}

\* the interval timers that fire
liveIntervals == {t \in intervals : ~t.cleared}

\* An invocation of checkCreditScore.  pc: "idle" (no invocation), "ledger"
\* (triggerHedge awaits hedgeContractService.createHedgePosition), "hedge"
\* (triggerHedge awaits hedgeService.evaluateAndHedge, the invocation
\* `child`).  ledgerCreated: the create_hedge_position this invocation
\* submitted has added a position to the Ledger.  cause: the error that
\* the catch block has caught ("": none), which the retry timer keeps as a
\* history value.
IdleCheck ==
    [pc |-> "idle", borrowerId |-> "", loanAmount |-> 0, retryCount |-> 0,
     hadLast |-> FALSE, lastScore |-> 0, newScore |-> 0, child |-> 0,
     ledgerCreated |-> FALSE, cause |-> ""]

FreeCheck ==
    IF \E k \in CheckIds : checks[k].pc = "idle"
    THEN CHOOSE k \in CheckIds :
            checks[k].pc = "idle" /\ \A e \in CheckIds : checks[e].pc = "idle" => k <= e
    ELSE 0

\* Math.min(baseRatio + scoreFactor * 0.5, 1.0)
calculateHedgeRatio(creditScore) ==
    RMin(RAdd(Rat(1, 2),
              RMul(Rat(monitorThreshold - creditScore, monitorThreshold), Rat(1, 2))),
         Num(1))

\* HedgeContractService.createHedgePosition: the payload it hands to
\* walletService.submitTransaction, by itself
createPayload(borrowerId, amount, ratio) ==
    [fn |-> "create_hedge_position", by |-> "HedgeContractService",
     borrowerId |-> borrowerId, amount |-> amount,
     hedgeRatio |-> RMul(ratio, Num(10000))]

\* create_hedge_position: the asserts of the entry function, and its u64
\* parameters
ledgerAccepts(payload) ==
    /\ payload.amount > 0
    /\ IsInt(payload.hedgeRatio)
    /\ RLt(Zero, payload.hedgeRatio) /\ RLe(payload.hedgeRatio, Num(10000))

ledgerPosition(payload) ==
    [borrower_id |-> payload.borrowerId, amount |-> payload.amount,
     hedge_ratio |-> payload.hedgeRatio.n, status |-> "open"]

\* if (lastScore && lastScore !== newScore)
raisesAlert(ck) == ck.hadLast /\ ck.lastScore # 0 /\ ck.lastScore # ck.newScore

calculateRiskLevel(creditScore) ==
    IF creditScore < 500 THEN "high"
    ELSE IF creditScore < 650 THEN "medium"
    ELSE "low"

alertOf(ck) ==
    [borrowerId |-> ck.borrowerId, oldScore |-> ck.lastScore, newScore |-> ck.newScore,
     riskLevel |-> calculateRiskLevel(ck.newScore)]

\* the alert, if any, is appended
alerted(al, ck) == IF raisesAlert(ck) THEN Append(al, alertOf(ck)) ELSE al

\* notifyAlertCallbacks(alert): alertCallbacks.forEach(callback => callback(alert)).
\* A callback that throws ends the forEach.
notifyAlertCallbacks(cbs, alert) ==
    [i \in 1 .. Len(cbs) |->
        IF \A j \in 1 .. i - 1 : cbs[j].kind = "returns"
        THEN [cbs[i] EXCEPT !.got = Append(@, alert)]
        ELSE cbs[i]]

throws(cbs) == \E i \in 1 .. Len(cbs) : cbs[i].kind = "throws"

\* a catch block that schedules a retry whatever retryCount is
retriesAfterUnbounded(timers, ck) ==
    timers \cup {[borrowerId |-> ck.borrowerId, loanAmount |-> ck.loanAmount,
                  retryCount |-> ck.retryCount + 1,
                  due |-> now + minCheckInterval, cause |-> ck.cause]}

\* the catch block of checkCreditScore: a retry is added to the timers while
\* retryCount < maxRetries
retriesAfter(timers, ck) ==
    IF ck.retryCount < monitorMaxRetries
    THEN timers \cup {[borrowerId |-> ck.borrowerId, loanAmount |-> ck.loanAmount,
                       retryCount |-> ck.retryCount + 1,
                       due |-> now + minCheckInterval, cause |-> ck.cause]}
    ELSE timers

\* The catch block of checkCreditScore: the retry, or the check_failed event
\* once retryCount has reached maxRetries
caught(ck, timers) ==
    /\ retryTimers' = retriesAfter(timers, ck)
    /\ checkFailed' = IF ck.retryCount < monitorMaxRetries
                      THEN checkFailed
                      ELSE Append(checkFailed, [borrowerId |-> ck.borrowerId, at |-> now])

\* The end of checkCreditScore's try block for the check ck: the alert is
\* handed to the callbacks, and the catch block runs when one of them throws
alertSent(ck, timers) ==
    /\ alerts' = alerted(alerts, ck)
    /\ alertCallbacks' = IF raisesAlert(ck)
                         THEN notifyAlertCallbacks(alertCallbacks, alertOf(ck))
                         ELSE alertCallbacks
    /\ IF raisesAlert(ck) /\ throws(alertCallbacks)
       THEN caught(ck, timers)
       ELSE /\ retryTimers' = timers
            /\ checkFailed' = checkFailed

\* checkCreditScore once its score lookups are done: g is what cache.get
\* gave for the last score, newScore what getCurrentCreditScore returned.
\* Below the threshold triggerHedge submits create_hedge_position and waits.
\* timers: the retry timers that are pending.
checkWith(k, borrowerId, loanAmount, retryCount, g, newScore, timers) ==
    /\ cache' = cacheSet(g.cache, CreditKey(borrowerId), newScore, now)
    /\ IF newScore < monitorThreshold
       THEN /\ checks' = [checks EXCEPT ![k] =
                    [IdleCheck EXCEPT !.pc = "ledger", !.borrowerId = borrowerId,
                                      !.loanAmount = loanAmount, !.retryCount = retryCount,
                                      !.hadLast = g.found, !.lastScore = g.data,
                                      !.newScore = newScore]]
            /\ walletLog' = Append(walletLog,
                    createPayload(borrowerId, loanAmount, calculateHedgeRatio(newScore)))
            /\ alerts' = alerts
            /\ alertCallbacks' = alertCallbacks
            /\ retryTimers' = timers
            /\ checkFailed' = checkFailed
       ELSE /\ checks' = checks
            /\ walletLog' = walletLog
            /\ alertSent([IdleCheck EXCEPT !.borrowerId = borrowerId,
                                           !.loanAmount = loanAmount,
                                           !.retryCount = retryCount,
                                           !.hadLast = g.found, !.lastScore = g.data,
                                           !.newScore = newScore], timers)

\* checkCreditScore(borrowerId, loanAmount, retryCount) up to its first
\* pending request, in slot k
\* When the score source does not answer, getCurrentCreditScore throws.
checkCreditScore(k, borrowerId, loanAmount, retryCount, timers) ==
    /\ IF score[borrowerId] = Unavailable
       THEN /\ cache' = cacheGet(cache, CreditKey(borrowerId), now).cache
            /\ caught([IdleCheck EXCEPT !.borrowerId = borrowerId,
                                        !.loanAmount = loanAmount,
                                        !.retryCount = retryCount], timers)
            /\ UNCHANGED <<checks, walletLog, alerts, alertCallbacks>>
       ELSE checkWith(k, borrowerId, loanAmount, retryCount,
                      cacheGet(cache, CreditKey(borrowerId), now), score[borrowerId],
                      timers)
    /\ checksStarted' = checksStarted + 1

\* a call of the service by a client
monitorCalled(fn, borrowerId) ==
    /\ monitorCall.n < MaxMonitorCalls
    /\ monitorCall' = [n |-> monitorCall.n + 1, fn |-> fn, borrowerId |-> borrowerId]

\* startMonitoring without its first three lines
startMonitoringAgain(borrowerId, initialCreditScore, loanAmount) ==
    /\ FreshTimer # 0
    /\ cache' = cacheSet(cache, CreditKey(borrowerId), initialCreditScore, now)
    /\ intervals' = intervals \cup {[id |-> FreshTimer, borrowerId |-> borrowerId,
                                      loanAmount |-> loanAmount,
                                      due |-> now + checkInterval,
                                      cleared |-> FALSE]}
    /\ monitoringMap' = [monitoringMap EXCEPT ![borrowerId] =
                            [armed |-> TRUE, id |-> FreshTimer]]

\* startMonitoring(borrowerId, initialCreditScore, loanAmount)
startMonitoring(borrowerId, initialCreditScore, loanAmount) ==
    IF monitoringMap[borrowerId].armed
    THEN UNCHANGED <<cache, intervals, monitoringMap>>
    ELSE /\ FreshTimer # 0
         /\ cache' = cacheSet(cache, CreditKey(borrowerId), initialCreditScore, now)
         /\ intervals' = intervals \cup {[id |-> FreshTimer, borrowerId |-> borrowerId,
                                           loanAmount |-> loanAmount,
                                           due |-> now + checkInterval,
                                           cleared |-> FALSE]}
         /\ monitoringMap' = [monitoringMap EXCEPT ![borrowerId] =
                                 [armed |-> TRUE, id |-> FreshTimer]]

\* A client calls startMonitoring for a borrower of B
StartMonitoringOf(B) ==
    /\ \E b \in B, s \in InitialScores, l \in LoanAmounts :
        /\ monitorCalled("startMonitoring", b)
        /\ startMonitoring(b, s, l)
    /\ UNCHANGED <<now, score, positions, buckets, stats, calls, started, sweep, row>>
    /\ UNCHANGED outsideMonitor
    /\ UNCHANGED <<checks, retryTimers, checksStarted, alerts, alertCallbacks, checkFailed,
                   walletLog, ledger>>

StartMonitoring == StartMonitoringOf(Borrowers)

\* stopMonitoring(borrowerId): clearInterval of the stored timer, and the
\* entry is deleted
stopMonitoring(borrowerId) ==
    IF monitoringMap[borrowerId].armed
    THEN /\ intervals' = clearInterval(intervals, monitoringMap[borrowerId].id)
         /\ monitoringMap' = [monitoringMap EXCEPT ![borrowerId] = NotMonitored]
    ELSE UNCHANGED <<intervals, monitoringMap>>

\* A client calls stopMonitoring
StopMonitoring ==
    /\ \E b \in Borrowers :
        /\ monitorCalled("stopMonitoring", b)
        /\ stopMonitoring(b)
    /\ UNCHANGED <<now, score, positions, buckets, stats, cache, calls, started, sweep, row>>
    /\ UNCHANGED outsideMonitor
    /\ UNCHANGED <<checks, retryTimers, checksStarted, alerts, alertCallbacks, checkFailed,
                   walletLog, ledger>>

\* A client calls updateConfig with values that are those of the config
\* already: every stored timer is cleared.  No code caches a loan_amount_ key,
\* so that cache.get gives null and startMonitoring is not called.
UpdateConfig ==
    /\ monitorCalled("updateConfig", "")
    /\ intervals' = {IF \E b \in Borrowers :
                            monitoringMap[b].armed /\ monitoringMap[b].id = t.id
                      THEN [t EXCEPT !.cleared = TRUE]
                      ELSE t : t \in intervals}
    /\ UNCHANGED <<now, score, positions, buckets, stats, cache, calls, started, sweep, row>>
    /\ UNCHANGED outsideMonitor
    /\ UNCHANGED <<monitoringMap, checks, retryTimers, checksStarted, alerts,
                   alertCallbacks, checkFailed, walletLog, ledger>>

\* A client calls onAlert with a callback that returns, or one that throws
OnAlert ==
    /\ Len(alertCallbacks) < MaxObservers
    /\ \E kind \in {"returns", "throws"} :
        alertCallbacks' = Append(alertCallbacks,
                                 [kind |-> kind, since |-> Len(alerts), got |-> <<>>])
    /\ UNCHANGED <<now, score, positions, buckets, stats, cache, calls, started, sweep, row>>
    /\ UNCHANGED outsideMonitor
    /\ UNCHANGED <<monitoringMap, intervals, monitorCall, checks, retryTimers, checksStarted,
                   alerts, checkFailed, walletLog, ledger>>

\* The times at which the timers of the monitor are due
Dues ==
    {t.due : t \in liveIntervals} \cup {t.due : t \in retryTimers}

\* Time passes up to the next timer, while fewer than maxChecks checks have
\* started and no timer is due later than maxClock * minCheckInterval
TimerTickWithin(maxChecks, maxClock) ==
    /\ checksStarted < maxChecks
    /\ Dues # {}
    /\ \A d \in Dues : d > now /\ d <= maxClock * minCheckInterval
    /\ now' = CHOOSE d \in Dues : \A e \in Dues : d <= e
    /\ UNCHANGED <<score, positions, buckets, stats, cache, calls, started, sweep, row>>
    /\ UNCHANGED outsideMonitor
    /\ UNCHANGED monitorVars

TimerTick == TimerTickWithin(MaxChecks, MaxClock)

\* The interval timer of a borrower fires
IntervalFiresWithin(maxChecks) ==
    /\ checksStarted < maxChecks
    /\ FreeCheck # 0
    /\ \E t \in liveIntervals :
        /\ t.due <= now
        /\ intervals' = (intervals \ {t}) \cup {[t EXCEPT !.due = @ + checkInterval]}
        /\ checkCreditScore(FreeCheck, t.borrowerId, t.loanAmount, 0, retryTimers)
    /\ UNCHANGED <<now, score, positions, buckets, stats, calls, started, sweep, row>>
    /\ UNCHANGED outsideMonitor
    /\ UNCHANGED <<monitoringMap, monitorCall, ledger>>

IntervalFires == IntervalFiresWithin(MaxChecks)

\* The timer of a retry fires
RetryFiresWithin(maxChecks) ==
    /\ checksStarted < maxChecks
    /\ FreeCheck # 0
    /\ \E t \in retryTimers :
        /\ t.due <= now
        /\ checkCreditScore(FreeCheck, t.borrowerId, t.loanAmount, t.retryCount,
                            retryTimers \ {t})
    /\ UNCHANGED <<now, score, positions, buckets, stats, calls, started, sweep, row>>
    /\ UNCHANGED outsideMonitor
    /\ UNCHANGED <<monitoringMap, intervals, monitorCall, ledger>>

RetryFires == RetryFiresWithin(MaxChecks)

\* walletService.submitTransaction returns: the Ledger has run
\* create_hedge_position, and triggerHedge calls evaluateAndHedge
LedgerSubmitted(k) ==
    /\ checks[k].pc = "ledger"
    /\ FreeIn(calls) # 0
    /\ invoke(calls, FreeIn(calls),
              evaluateAndHedge("monitor", checks[k].borrowerId, checks[k].newScore,
                               Num(checks[k].loanAmount)))
    /\ ledger' = IF ledgerAccepts(createPayload(checks[k].borrowerId, checks[k].loanAmount,
                                                calculateHedgeRatio(checks[k].newScore)))
                 THEN Append(ledger,
                             ledgerPosition(createPayload(checks[k].borrowerId,
                                                checks[k].loanAmount,
                                                calculateHedgeRatio(checks[k].newScore))))
                 ELSE ledger
    /\ checks' = [checks EXCEPT ![k].pc = "hedge", ![k].child = FreeIn(calls),
                                ![k].ledgerCreated = Len(ledger') > Len(ledger)]
    /\ UNCHANGED <<now, score, positions, started, sweep, row>>
    /\ UNCHANGED outsideMonitor
    /\ UNCHANGED <<monitoringMap, intervals, monitorCall, retryTimers, checksStarted, alerts,
                   alertCallbacks, checkFailed, walletLog>>

\* walletService.submitTransaction throws: checkCreditScore catches it
LedgerFailed(k) ==
    /\ checks[k].pc = "ledger"
    /\ caught(checks[k], retryTimers)
    /\ checks' = [checks EXCEPT ![k] = IdleCheck]
    /\ UNCHANGED <<now, score, positions, buckets, stats, cache, calls, started, sweep, row>>
    /\ UNCHANGED outsideMonitor
    /\ UNCHANGED <<monitoringMap, intervals, monitorCall, checksStarted, alerts,
                   alertCallbacks, walletLog, ledger>>

\* The evaluateAndHedge that triggerHedge awaits has returned or thrown:
\* checkCreditScore sends its alert, or catches the error
CheckHedged(k) ==
    /\ checks[k].pc = "hedge"
    /\ calls[checks[k].child].pc \in {"done", "failed"}
    /\ calls' = [calls EXCEPT ![checks[k].child] = IdleCall]
    /\ IF calls[checks[k].child].pc = "done"
       THEN alertSent(checks[k], retryTimers)
       ELSE /\ alerts' = alerts
            /\ alertCallbacks' = alertCallbacks
            /\ caught([checks[k] EXCEPT !.cause = calls[checks[k].child].error],
                      retryTimers)
    /\ checks' = [checks EXCEPT ![k] = IdleCheck]
    /\ UNCHANGED <<now, score, positions, buckets, stats, cache, started, sweep, row>>
    /\ UNCHANGED outsideMonitor
    /\ UNCHANGED <<monitoringMap, intervals, monitorCall, checksStarted, walletLog, ledger>>

(* ------------------------------------------- RateLimiter: acquire, batches *)

Req(key, tokens) == [key |-> key, tokens |-> tokens]

\* the requests arguments of acquireBatch
Batches ==
    {<<Req("hedge", 1), Req("loan", 1)>>,
     <<Req("hedge", 1), Req("hedge", 1)>>,
     <<Req("loan", 1), Req("hedge", 2)>>}

ClearBatches == {<<Req("hedge", 1), Req("hedge", 1)>>}

NoResults == [k \in RLKeys |-> "unset"]

\* An invocation of acquire with a timeout (kind "acquire") or of acquireBatch
\* (kind "batch").  pc: "idle" (no invocation), "sleep" (acquire awaits its
\* setTimeout), "await" (acquireBatch, all-at-once path, awaits the acquire of
\* request idx), "tawait" (acquireBatch, timeout path, awaits the acquire of
\* request remaining[idx]), "tsleep" (acquireBatch awaits its setTimeout),
\* "done" (returned).  pending: what the awaited acquire returned.
\* deducted: an acquire of this invocation has taken tokens from a bucket.
\* bucket: the object that acquire's local `bucket` refers to once clear has
\* taken it out of the map (gen 0: it is the map's bucket of the key;
\* invocations with the same key and gen refer to the same object).
InMap == [gen |-> 0, present |-> FALSE, tokens |-> Zero, lastRefill |-> 0]

IdleProc ==
    [pc |-> "idle", kind |-> "", key |-> "", tokens |-> 0, timeout |-> 0,
     startTime |-> 0, wake |-> 0, requests |-> <<>>, remaining |-> <<>>, idx |-> 0,
     results |-> NoResults, pending |-> FALSE, ok |-> FALSE, deducted |-> FALSE,
     bucket |-> InMap]

FreeProc ==
    IF \E p \in ProcIds : procs[p].pc = "idle"
    THEN CHOOSE p \in ProcIds :
            procs[p].pc = "idle" /\ \A e \in ProcIds : procs[e].pc = "idle" => p <= e
    ELSE 0

\* A promise continuation is queued: no timer fires and no time passes before
\* it has run
MicrotaskPending == \E p \in ProcIds : procs[p].pc \in {"await", "tawait"}

(* acquire(key, tokens, timeout) *)

\* The waiting acquire q holds the bucket object that pr holds, and the map
\* does not
sameBucket(q, pr) ==
    /\ pr.bucket.gen # 0
    /\ q.pc = "sleep"
    /\ q.key = pr.key
    /\ q.bucket.gen = pr.bucket.gen

\* const bucket of the acquire pr: the map's, or the object clear removed
bucketOf(pr) == IF pr.bucket.gen = 0 THEN buckets[pr.key] ELSE pr.bucket

\* acquire after a pass of its loop that gave r: it returns true, or returns
\* false (no timeout, or timed out), or sleeps Math.min(100, timeout)
afterPass(p, pr, r) ==
    /\ procs' = [q \in ProcIds |->
            IF q = p
            THEN IF r.ok
                 THEN [pr EXCEPT !.pc = "done", !.ok = TRUE, !.deducted = TRUE,
                                 !.bucket = InMap]
                 ELSE IF pr.timeout = 0 \/ now - pr.startTime >= pr.timeout
                 THEN [pr EXCEPT !.pc = "done", !.ok = FALSE, !.bucket = InMap]
                 ELSE [pr EXCEPT !.pc = "sleep",
                                 !.wake = now + (IF pr.timeout < 100 THEN pr.timeout ELSE 100),
                                 !.bucket = IF pr.bucket.gen = 0 THEN InMap ELSE r.bucket]
            ELSE IF sameBucket(procs[q], pr)
                 THEN [procs[q] EXCEPT !.bucket = r.bucket]
                 ELSE procs[q]]
    /\ buckets' = IF pr.bucket.gen = 0 THEN [buckets EXCEPT ![pr.key] = r.bucket]
                  ELSE buckets
    /\ stats' = [stats EXCEPT ![pr.key] =
            IF ~r.ok /\ (pr.timeout = 0 \/ now - pr.startTime >= pr.timeout)
            THEN bumpStat(r.stats, "rejectedRequests") ELSE r.stats]

\* A client calls acquire(key, tokens, timeout), the call one of at most
\* maxCalls, the key of K and the tokens of C
AcquireCallOf(maxCalls, K, C) ==
    /\ started < maxCalls
    /\ FreeProc # 0
    /\ \E key \in K, tokens \in C, timeout \in Timeouts :
        afterPass(FreeProc,
                  [IdleProc EXCEPT !.kind = "acquire", !.key = key, !.tokens = tokens,
                                   !.timeout = timeout, !.startTime = now],
                  IF buckets[key].present
                  THEN tryAcquire(buckets[key], bumpStat(stats[key], "totalRequests"),
                                  tokens, now)
                  ELSE tryAcquire([present |-> TRUE, tokens |-> Num(maxTokens),
                                   lastRefill |-> now],
                                  bumpStat(initStats, "totalRequests"), tokens, now))
    /\ started' = started + 1
    /\ UNCHANGED <<now, refillDue>>
    /\ UNCHANGED outsideLimiter

\* A client calls acquire(key, tokens, timeout)
AcquireCall == AcquireCallOf(MaxCalls, RLKeys, Costs)

\* The setTimeout of a waiting acquire fires: the next pass of its loop
AcquireWake(p) ==
    /\ procs[p].pc = "sleep"
    /\ procs[p].wake <= now
    /\ ~MicrotaskPending
    /\ afterPass(p, procs[p],
                 tryAcquire(bucketOf(procs[p]), stats[procs[p].key],
                            procs[p].tokens, now))
    /\ UNCHANGED <<now, started, refillDue>>
    /\ UNCHANGED outsideLimiter

(* acquireBatch(requests, timeout) *)

\* requests.every(...): the buckets it has refilled, and its result.  It
\* stops at the first request its bucket cannot serve.
RECURSIVE everyCheck(_, _, _)
everyCheck(requests, i, bks) ==
    IF i > Len(requests) THEN [ok |-> TRUE, buckets |-> bks]
    ELSE IF ~bks[requests[i].key].present THEN everyCheck(requests, i + 1, bks)
    ELSE IF RLe(Num(requests[i].tokens), refillBucket(bks[requests[i].key], now).tokens)
         THEN everyCheck(requests, i + 1,
                         [bks EXCEPT ![requests[i].key] = refillBucket(@, now)])
         ELSE [ok |-> FALSE, buckets |-> [bks EXCEPT ![requests[i].key] = refillBucket(@, now)]]

\* the requests whose key has no result yet (their indices)
remainingOf(requests, results) ==
    SelectSeq([i \in 1 .. Len(requests) |-> i],
              LAMBDA i : results[requests[i].key] = "unset")

\* results.size
sizeOf(results) == Cardinality({k \in RLKeys : results[k] # "unset"})

\* for (const { key } of requests) if (!results.has(key)) results.set(key, false)
restFalse(requests, results) ==
    [k \in RLKeys |->
        IF results[k] = "unset" /\ \E i \in 1 .. Len(requests) : requests[i].key = k
        THEN "false" ELSE results[k]]

\* acquireBatch calls acquire(key, tokens, 0) for request i and awaits it: a
\* is what the acquire did
awaiting(p, pr, pc, idx, a) ==
    /\ procs' = [procs EXCEPT ![p] =
            [pr EXCEPT !.pc = pc, !.idx = idx, !.pending = a.ok,
                       !.deducted = @ \/ a.ok]]
    /\ buckets' = a.buckets
    /\ stats' = a.stats

\* acquireBatch returns with the results given
returning(p, pr, results, bks) ==
    /\ procs' = [procs EXCEPT ![p] = [pr EXCEPT !.pc = "done", !.results = results]]
    /\ buckets' = bks
    /\ stats' = stats

\* A pass of the while loop of the timeout path begins, on buckets bks: out
\* of time it returns; with nothing remaining it sleeps; else it calls the
\* first remaining acquire
retryPass(p, pr, bks) ==
    IF ~(now - pr.startTime < pr.timeout)
    THEN returning(p, pr, restFalse(pr.requests, pr.results), bks)
    ELSE IF remainingOf(pr.requests, pr.results) = <<>>
    THEN /\ procs' = [procs EXCEPT ![p] = [pr EXCEPT !.pc = "tsleep", !.wake = now + 100]]
         /\ buckets' = bks
         /\ stats' = stats
    ELSE awaiting(p, [pr EXCEPT !.remaining = remainingOf(pr.requests, pr.results)],
                  "tawait", 1,
                  acquireIn(bks, stats,
                            pr.requests[remainingOf(pr.requests, pr.results)[1]].key,
                            pr.requests[remainingOf(pr.requests, pr.results)[1]].tokens))

\* acquireBatch once its check has given e
batchWith(p, pr, e) ==
    IF e.ok
    THEN awaiting(p, pr, "await", 1,
                  acquireIn(e.buckets, stats, pr.requests[1].key, pr.requests[1].tokens))
    ELSE IF pr.timeout > 0
    THEN retryPass(p, pr, e.buckets)
    ELSE returning(p, pr, restFalse(pr.requests, pr.results), e.buckets)

\* A client calls acquireBatch(requests, timeout), the call one of at most
\* maxCalls and the requests of R
BatchCallOf(maxCalls, R) ==
    /\ started < maxCalls
    /\ FreeProc # 0
    /\ \E requests \in R, timeout \in Timeouts :
        batchWith(FreeProc,
                  [IdleProc EXCEPT !.kind = "batch", !.requests = requests,
                                   !.timeout = timeout, !.startTime = now],
                  everyCheck(requests, 1, buckets))
    /\ started' = started + 1
    /\ UNCHANGED <<now, refillDue>>
    /\ UNCHANGED outsideLimiter

\* A client calls acquireBatch(requests, timeout)
BatchCall == BatchCallOf(MaxCalls, Batches)

\* the result of the awaited acquire, recorded under the key of request i
recorded(pr, i) ==
    [pr.results EXCEPT ![pr.requests[i].key] = IF pr.pending THEN "true" ELSE "false"]

\* All-at-once path: the awaited acquire is back, its result is set, and the
\* next request's acquire is called, or the batch returns
BatchResume(p) ==
    /\ procs[p].pc = "await"
    /\ IF procs[p].idx < Len(procs[p].requests)
       THEN awaiting(p, [procs[p] EXCEPT !.results = recorded(procs[p], procs[p].idx)],
                     "await", procs[p].idx + 1,
                     acquireIn(buckets, stats,
                               procs[p].requests[procs[p].idx + 1].key,
                               procs[p].requests[procs[p].idx + 1].tokens))
       ELSE returning(p, procs[p], recorded(procs[p], procs[p].idx), buckets)
    /\ UNCHANGED <<now, started, refillDue>>
    /\ UNCHANGED outsideLimiter

\* if (success) results.set(key, true)
recordedTrue(pr) ==
    IF pr.pending
    THEN [pr.results EXCEPT ![pr.requests[pr.remaining[pr.idx]].key] = "true"]
    ELSE pr.results

\* Timeout path, the for loop is over: with a result for every request the
\* batch returns, else it sleeps 100 ms
afterRetries(p, pr) ==
    IF sizeOf(pr.results) = Len(pr.requests)
    THEN returning(p, pr, restFalse(pr.requests, pr.results), buckets)
    ELSE /\ procs' = [procs EXCEPT ![p] = [pr EXCEPT !.pc = "tsleep", !.wake = now + 100]]
         /\ UNCHANGED <<buckets, stats>>

\* Timeout path: the awaited acquire is back; the next remaining request's
\* acquire is called, or the for loop is over
BatchRetryResume(p) ==
    /\ procs[p].pc = "tawait"
    /\ IF procs[p].idx < Len(procs[p].remaining)
       THEN awaiting(p, [procs[p] EXCEPT !.results = recordedTrue(procs[p])],
                     "tawait", procs[p].idx + 1,
                     acquireIn(buckets, stats,
                               procs[p].requests[procs[p].remaining[procs[p].idx + 1]].key,
                               procs[p].requests[procs[p].remaining[procs[p].idx + 1]].tokens))
       ELSE afterRetries(p, [procs[p] EXCEPT !.results = recordedTrue(procs[p])])
    /\ UNCHANGED <<now, started, refillDue>>
    /\ UNCHANGED outsideLimiter

\* Timeout path: the setTimeout fires, the while loop goes on
BatchWake(p) ==
    /\ procs[p].pc = "tsleep"
    /\ procs[p].wake <= now
    /\ ~MicrotaskPending
    /\ retryPass(p, procs[p], buckets)
    /\ UNCHANGED <<now, started, refillDue>>
    /\ UNCHANGED outsideLimiter

\* The caller of a finished acquire or acquireBatch resumes
ProcReturn(p) ==
    /\ procs[p].pc = "done"
    /\ procs' = [procs EXCEPT ![p] = IdleProc]
    /\ UNCHANGED <<now, buckets, stats, started, refillDue>>
    /\ UNCHANGED outsideLimiter

\* The bucket object of `key` as the waiting acquires hold it once clear has
\* removed it from the map: a generation no waiting acquire has yet
removedBucket(key) ==
    [gen |-> 1 + (CHOOSE g \in 0 .. ClearCalls :
                    /\ g = 0 \/ \E q \in ProcIds : procs[q].bucket.gen = g
                    /\ \A q \in ProcIds : procs[q].bucket.gen <= g),
     present |-> TRUE, tokens |-> buckets[key].tokens,
     lastRefill |-> buckets[key].lastRefill]

\* clear(key): the bucket and the stats of the key are deleted; an acquire
\* that waits on the key keeps the bucket object it has read
clear(key) ==
    /\ buckets' = [buckets EXCEPT ![key] = NoBucket]
    /\ stats' = [stats EXCEPT ![key] = NoStats]
    /\ procs' = [q \in ProcIds |->
            IF procs[q].pc = "sleep" /\ procs[q].key = key /\ procs[q].bucket.gen = 0
            THEN [procs[q] EXCEPT !.bucket = removedBucket(key)]
            ELSE procs[q]]

\* A client calls clear(key)
Clear ==
    /\ started < ClearCalls
    /\ \E key \in ClearKeys : clear(key)
    /\ started' = started + 1
    /\ UNCHANGED <<now, refillDue>>
    /\ UNCHANGED outsideLimiter

\* The refill timer fires: every bucket is refilled
RefillTimer ==
    /\ refillDue <= now
    /\ ~MicrotaskPending
    /\ buckets' = [k \in RLKeys |->
                      IF buckets[k].present THEN refillBucket(buckets[k], now)
                      ELSE buckets[k]]
    /\ refillDue' = refillDue + refillInterval
    /\ UNCHANGED <<now, stats, started, procs>>
    /\ UNCHANGED outsideLimiter

\* the times at which a timer of the limiter or of its waiting clients is due
LimiterDues ==
    {refillDue} \cup {procs[p].wake : p \in {x \in ProcIds : procs[x].pc \in {"sleep", "tsleep"}}}

\* Time passes: 100 ms, or up to the refill timer; no timer is passed over
LimiterTick ==
    /\ ~MicrotaskPending
    /\ \E t \in {now + 100, refillDue} :
        /\ t > now
        /\ t <= MaxRefills * refillInterval
        /\ \A d \in LimiterDues : now < d /\ t <= d
        /\ now' = t
    /\ UNCHANGED <<buckets, stats, started, procs, refillDue>>
    /\ UNCHANGED outsideLimiter

(* -------------------------------------------------------- BatchProcessor *)

\* A BatchTransaction object.  submitted: how often it was handed to
\* walletService.submitTransaction; succeeded: one of these returned;
\* result: what processBatch put in results[tx.id] ("none", "hash", "error").
NoTx ==
    [added |-> FALSE, priority |-> 0, timestamp |-> 0, retries |-> 0,
     submitted |-> 0, succeeded |-> FALSE, result |-> "none"]

\* the comparator of sortQueue on the transaction objects t: a goes before b
goesBefore(t, a, b) ==
    \/ t[a].priority > t[b].priority
    \/ t[a].priority = t[b].priority /\ t[a].timestamp < t[b].timestamp

\* x put into the sorted q, behind everything it does not go before
inserted(t, q, x) ==
    LET ahead == {i \in 1 .. Len(q) : goesBefore(t, x, q[i])}
        at == IF ahead = {} THEN Len(q) + 1 ELSE CHOOSE i \in ahead : \A j \in ahead : i <= j
    IN  SubSeq(q, 1, at - 1) \o <<x>> \o SubSeq(q, at, Len(q))

\* sortQueue: by priority, highest first, then by timestamp; the sort is stable
RECURSIVE sortQueue(_, _)
sortQueue(t, q) ==
    IF q = <<>> THEN <<>>
    ELSE inserted(t, sortQueue(t, SubSeq(q, 1, Len(q) - 1)), q[Len(q)])

\* removeTransaction(id)
removeTransaction(q, id) == SelectSeq(q, LAMBDA x : x # id)

\* the next transaction id (Date.now() and a random suffix: each is new)
NextTx ==
    IF \E t \in TxIds : ~txs[t].added
    THEN CHOOSE t \in TxIds : ~txs[t].added /\ \A e \in TxIds : ~txs[e].added => t <= e
    ELSE 0

\* A client calls addTransaction(payload, priority)
AddTransaction ==
    /\ NextTx # 0
    /\ \E priority \in Priorities :
        txs' = [txs EXCEPT ![NextTx] =
                   [NoTx EXCEPT !.added = TRUE, !.priority = priority, !.timestamp = now]]
    /\ queue' = sortQueue(txs', Append(queue, NextTx))
    /\ UNCHANGED <<now, processing, batch, pushTimers, processDue>>
    /\ UNCHANGED outsideQueue

\* how often transaction t is in the batch b
timesIn(b, t) == Cardinality({i \in 1 .. Len(b) : b[i].tx = t})

\* A slice that takes the last entries of the queue
sliceFromEnd(q, size) ==
    [i \in 1 .. (IF Len(q) < size THEN Len(q) ELSE size) |->
        [tx |-> q[Len(q) + 1 - i], state |-> "pending"]]

\* this.queue.slice(0, size), each entry submitted
slice(q, size) ==
    [i \in 1 .. (IF Len(q) < size THEN Len(q) ELSE size) |->
        [tx |-> q[i], state |-> "pending"]]

\* the first maxBatchSize entries of the queue, each submitted
batchOf(q) == slice(q, maxBatchSize)

\* The processing timer fires: processBatch submits the head of the queue,
\* unless a batch is in progress or the queue is empty; size is the
\* maxBatchSize of the instance's config
ProcessTimerWith(size) ==
    /\ processDue <= now
    /\ processDue' = processDue + processingInterval
    /\ IF processing \/ queue = <<>>
       THEN UNCHANGED <<processing, batch, txs>>
       ELSE /\ processing' = TRUE
            /\ batch' = slice(queue, size)
            /\ txs' = [t \in TxIds |->
                          [txs[t] EXCEPT !.submitted = @ + timesIn(slice(queue, size), t)]]
    /\ UNCHANGED <<now, queue, pushTimers>>
    /\ UNCHANGED outsideQueue

\* The processing timer of an instance with the default config
ProcessTimer == ProcessTimerWith(maxBatchSize)

\* Submission i of the batch has settled: with the last one Promise.all
\* resolves and processing is reset
settled(i) ==
    IF \A j \in 1 .. Len(batch) : j = i \/ batch[j].state = "settled"
    THEN /\ batch' = <<>>
         /\ processing' = FALSE
    ELSE /\ batch' = [batch EXCEPT ![i].state = "settled"]
         /\ processing' = processing

\* walletService.submitTransaction returns for submission i
SubmitReturns(i) ==
    /\ i \in 1 .. Len(batch)
    /\ batch[i].state = "pending"
    /\ txs' = [txs EXCEPT ![batch[i].tx].succeeded = TRUE, ![batch[i].tx].result = "hash"]
    /\ queue' = removeTransaction(queue, batch[i].tx)
    /\ settled(i)
    /\ UNCHANGED <<now, pushTimers, processDue>>
    /\ UNCHANGED outsideQueue

\* walletService.submitTransaction throws for submission i: a retry is
\* scheduled while tx.retries < maxRetries, else the transaction is removed
SubmitFails(i) ==
    /\ i \in 1 .. Len(batch)
    /\ batch[i].state = "pending"
    /\ IF txs[batch[i].tx].retries < maxRetries
       THEN /\ txs' = [txs EXCEPT ![batch[i].tx].retries = @ + 1]
            /\ pushTimers' = pushTimers \cup
                    {[tx |-> batch[i].tx,
                      due |-> now + retryDelay * (txs[batch[i].tx].retries + 1)]}
            /\ queue' = queue
       ELSE /\ txs' = [txs EXCEPT ![batch[i].tx].result = "error"]
            /\ pushTimers' = pushTimers
            /\ queue' = removeTransaction(queue, batch[i].tx)
    /\ settled(i)
    /\ UNCHANGED <<now, processDue>>
    /\ UNCHANGED outsideQueue

\* The timer of a retry fires: this.queue.push(tx); this.sortQueue()
PushTimer ==
    /\ \E t \in pushTimers :
        /\ t.due <= now
        /\ pushTimers' = pushTimers \ {t}
        /\ queue' = sortQueue(txs, Append(queue, t.tx))
    /\ UNCHANGED <<now, txs, processing, batch, processDue>>
    /\ UNCHANGED outsideQueue

\* processTimer is null: no drain is due at any time the clock reaches
NoTimer == (MaxBatches + 1) * processingInterval

\* destroy(): the processing timer is cleared, the queue emptied and
\* processing reset; submissions in flight and retry timers stay as they are
Destroy ==
    /\ processDue # NoTimer
    /\ processDue' = NoTimer
    /\ queue' = <<>>
    /\ processing' = FALSE
    /\ UNCHANGED <<now, txs, batch, pushTimers>>
    /\ UNCHANGED outsideQueue

\* A client calls addTransaction on a processor that was not destroyed
AddBeforeDestroy ==
    /\ processDue # NoTimer
    /\ AddTransaction

QueueDues == {processDue} \cup {t.due : t \in pushTimers}

\* Time passes up to the next timer
QueueTick ==
    /\ \A d \in QueueDues : d > now
    /\ \E t \in QueueDues :
        /\ \A d \in QueueDues : t <= d
        /\ t <= MaxBatches * processingInterval
        /\ now' = t
    /\ UNCHANGED queueVars
    /\ UNCHANGED outsideQueue

(* ------------------------------------------------ hedge_contract (Move) *)

\* A u64 is four 16-bit limbs, the lowest first.
U64(n) == <<n % 65536, n \div 65536, 0, 0>>

\* x + y: Move aborts the transaction when the sum does not fit a u64
U64Add(x, y) ==
    LET s1 == x[1] + y[1]
        s2 == x[2] + y[2] + s1 \div 65536
        s3 == x[3] + y[3] + s2 \div 65536
        s4 == x[4] + y[4] + s3 \div 65536
    IN [value |-> <<s1 % 65536, s2 % 65536, s3 % 65536, s4 % 65536>>,
        aborts |-> s4 >= 65536]

\* x - y: Move aborts the transaction when y > x
U64Sub(x, y) ==
    LET d1 == x[1] - y[1]
        d2 == x[2] - y[2] - (IF d1 < 0 THEN 1 ELSE 0)
        d3 == x[3] - y[3] - (IF d2 < 0 THEN 1 ELSE 0)
        d4 == x[4] - y[4] - (IF d3 < 0 THEN 1 ELSE 0)
    IN [value |-> <<d1 % 65536, d2 % 65536, d3 % 65536, d4 % 65536>>,
        aborts |-> d4 < 0]

\* bcs::to_bytes of a u64: its 8 bytes, the lowest first
bytesOfU64(x) ==
    <<x[1] % 256, x[1] \div 256, x[2] % 256, x[2] \div 256,
      x[3] % 256, x[3] \div 256, x[4] % 256, x[4] \div 256>>

\* bcs::to_bytes of the address 0x..<a>: 32 bytes
bytesOfAddress(a) == [i \in 1 .. 32 |-> IF i = 32 THEN a ELSE 0]

continuation(b, i, lo, hi) == i <= Len(b) /\ b[i] >= lo /\ b[i] <= hi

\* the length of the well-formed UTF-8 sequence that starts at b[i], or 0
utf8SequenceAt(b, i) ==
    IF b[i] <= 127 THEN 1
    ELSE IF b[i] \in 194 .. 223 /\ continuation(b, i + 1, 128, 191) THEN 2
    ELSE IF /\ b[i] \in 224 .. 239
            /\ continuation(b, i + 1, IF b[i] = 224 THEN 160 ELSE 128,
                                      IF b[i] = 237 THEN 159 ELSE 191)
            /\ continuation(b, i + 2, 128, 191) THEN 3
    ELSE IF /\ b[i] \in 240 .. 244
            /\ continuation(b, i + 1, IF b[i] = 240 THEN 144 ELSE 128,
                                      IF b[i] = 244 THEN 143 ELSE 191)
            /\ continuation(b, i + 2, 128, 191)
            /\ continuation(b, i + 3, 128, 191) THEN 4
    ELSE 0

\* string::utf8(bytes) aborts unless the bytes from b[i] on are UTF-8
RECURSIVE checkUtf8(_, _)
checkUtf8(b, i) ==
    IF i > Len(b) THEN TRUE
    ELSE IF utf8SequenceAt(b, i) = 0 THEN FALSE
    ELSE checkUtf8(b, i + utf8SequenceAt(b, i))

\* generate_position_id: "H-" + address bytes + "-" + borrower_id + "-T-" +
\* timestamp bytes.  The address and the timestamp have fixed lengths, so the
\* string determines the three parts, which stand for it here; aborts when
\* string::utf8 rejects the address bytes or the timestamp bytes.
generate_position_id(account_addr, borrower_id, t) ==
    [id |-> [addr |-> account_addr, borrower |-> borrower_id, t |-> t],
     aborts |-> \/ ~checkUtf8(bytesOfU64(t), 1)
                \/ ~checkUtf8(bytesOfAddress(account_addr), 1)]

\* calculate_average_ratio; its values stay far below 2^31 here
calculate_average_ratio(current_average, total_positions, new_ratio) ==
    IF total_positions = 0 THEN new_ratio
    ELSE (current_average * (total_positions - 1) + new_ratio) \div total_positions

\* no UserHedgeStore under the account
NoStore == [exists |-> FALSE, positions |-> <<>>]

\* n counts the transactions; aborted: the transaction changed nothing
NoTransaction == [n |-> 0, fn |-> "none", account |-> 0, aborted |-> FALSE]

\* the index of the first position with the id, or 0: the while loops of
\* close_hedge_position and adjust_hedge_ratio
firstWithId(ps, position_id) ==
    IF \E i \in 1 .. Len(ps) : ps[i].position_id = position_id
    THEN CHOOSE i \in 1 .. Len(ps) :
            /\ ps[i].position_id = position_id
            /\ \A j \in 1 .. i - 1 : ps[j].position_id # position_id
    ELSE 0

\* create_hedge_position(account, borrower_id, amount, hedge_ratio): whether
\* it aborts, and the stores and the stats it leaves otherwise
create_hedge_position(account, borrower_id, amount, hedge_ratio) ==
    [aborts |-> \/ amount = U64(0)
                \/ ~(hedge_ratio > 0 /\ hedge_ratio <= 10000)
                \/ generate_position_id(account, borrower_id, chainTime).aborts
                \/ U64Add(hedgeStats.total_hedged_amount, amount).aborts,
     stats |-> [total_positions |-> hedgeStats.total_positions + 1,
                total_hedged_amount |->
                    U64Add(hedgeStats.total_hedged_amount, amount).value,
                average_hedge_ratio |->
                    calculate_average_ratio(hedgeStats.average_hedge_ratio,
                                            hedgeStats.total_positions + 1, hedge_ratio)],
     stores |-> [userStores EXCEPT ![account] =
                    [exists |-> TRUE,
                     positions |-> Append(@.positions,
                        [position_id |->
                            generate_position_id(account, borrower_id, chainTime).id,
                         borrower_id |-> borrower_id,
                         amount |-> amount,
                         hedge_ratio |-> hedge_ratio,
                         open_price |-> OraclePrice,
                         timestamp |-> chainTime,
                         status |-> "open"])]]]

\* a close_hedge_position that leaves total_hedged_amount as it is
closeKeepsTotal(account, position_id) ==
    LET ps == userStores[account].positions
        i == firstWithId(ps, position_id)
    IN IF ~userStores[account].exists \/ i = 0 THEN [aborts |-> TRUE]
       ELSE [aborts |-> ps[i].status # "open",
             stats |-> hedgeStats,
             stores |-> [userStores EXCEPT ![account].positions[i].status = "closed"]]

\* close_hedge_position(account, position_id)
close_hedge_position(account, position_id) ==
    LET ps == userStores[account].positions
        i == firstWithId(ps, position_id)
    IN IF ~userStores[account].exists \/ i = 0 THEN [aborts |-> TRUE]
       ELSE [aborts |-> \/ ps[i].status # "open"
                        \/ U64Sub(hedgeStats.total_hedged_amount, ps[i].amount).aborts,
             stats |-> [hedgeStats EXCEPT !.total_hedged_amount =
                            U64Sub(@, ps[i].amount).value],
             stores |-> [userStores EXCEPT ![account].positions[i].status = "closed"]]

\* adjust_hedge_ratio(account, position_id, new_ratio)
adjust_hedge_ratio(account, position_id, new_ratio) ==
    LET ps == userStores[account].positions
        i == firstWithId(ps, position_id)
    IN IF ~(new_ratio > 0 /\ new_ratio <= 10000) \/ ~userStores[account].exists \/ i = 0
       THEN [aborts |-> TRUE]
       ELSE [aborts |-> ps[i].status # "open",
             stats |-> hedgeStats,
             stores |-> [userStores EXCEPT ![account].positions[i].hedge_ratio = new_ratio]]

\* A transaction that aborts changes nothing
committed(fn, account, args, tx) ==
    /\ lastTx' = [n |-> lastTx.n + 1, fn |-> fn, account |-> account, args |-> args,
                  aborted |-> tx.aborts]
    /\ userStores' = IF tx.aborts THEN userStores ELSE tx.stores
    /\ hedgeStats' = IF tx.aborts THEN hedgeStats ELSE tx.stats
    /\ UNCHANGED chainTime
    /\ UNCHANGED outsideChain

\* the position ids that callers pass: those that generate_position_id can
\* give at one of the block timestamps, and one that it cannot give
PositionIds ==
    {id \in {[addr |-> a, borrower |-> b, t |-> ChainTimes[k]] :
                a \in Accounts, b \in ChainBorrowers, k \in 1 .. Len(ChainTimes)} :
        \/ ~generate_position_id(id.addr, id.borrower, id.t).aborts
        \/ id.addr = 255 /\ id.t = ChainTimes[1]}

\* An account sends create_hedge_position
CreateTx ==
    \E a \in Accounts, b \in ChainBorrowers, amount \in ChainAmounts, r \in ChainRatios :
        /\ lastTx.n < MaxTxs
        /\ Len(userStores[a].positions) < MaxStored
        /\ committed("create_hedge_position", a,
                     [borrower_id |-> b, amount |-> amount, hedge_ratio |-> r],
                     create_hedge_position(a, b, amount, r))

\* An account sends close_hedge_position
CloseTx ==
    \E a \in Accounts, id \in PositionIds :
        /\ lastTx.n < MaxTxs
        /\ committed("close_hedge_position", a, [position_id |-> id],
                     close_hedge_position(a, id))

\* An account sends adjust_hedge_ratio
AdjustTx ==
    \E a \in Accounts, id \in PositionIds, r \in NewRatios :
        /\ lastTx.n < MaxTxs
        /\ committed("adjust_hedge_ratio", a, [position_id |-> id, new_ratio |-> r],
                     adjust_hedge_ratio(a, id, r))

\* The next block: its timestamp is the next of ChainTimes
NextBlock ==
    /\ \E k \in 1 .. Len(ChainTimes) - 1 :
        /\ chainTime = ChainTimes[k]
        /\ chainTime' = ChainTimes[k + 1]
    /\ UNCHANGED <<userStores, hedgeStats, lastTx>>
    /\ UNCHANGED outsideChain

(* ------------------------------------- HedgeService: the rebalance timer *)

\* A startRebalancing that sets its interval without clearing the old one
startRebalancingKeepsOld(timers, timer, period) ==
    [timers |-> timers \cup {[id |-> Cardinality(timers) + 1, period |-> period,
                              cleared |-> FALSE]},
     timer |-> Cardinality(timers) + 1]

\* startRebalancing(): clearInterval on this.rebalanceTimer unless it is
\* null, then setInterval with the period given; the timers made so far and
\* this.rebalanceTimer afterwards
startRebalancing(timers, timer, period) ==
    [timers |-> {IF t.id = timer THEN [t EXCEPT !.cleared = TRUE] ELSE t : t \in timers}
                    \cup {[id |-> Cardinality(timers) + 1, period |-> period,
                           cleared |-> FALSE]},
     timer |-> Cardinality(timers) + 1]

\* updateConfig(newConfig): the config is merged and the timer restarted;
\* newConfig has a rebalanceInterval of ServiceIntervals, or none (0)
UpdateHedgeConfig ==
    /\ serviceCalls < MaxServiceCalls
    /\ \E i \in ServiceIntervals \cup {0} :
        /\ rebalanceInterval' = IF i = 0 THEN rebalanceInterval ELSE i
        /\ rebalanceTimers' =
                startRebalancing(rebalanceTimers, rebalanceTimer, rebalanceInterval').timers
        /\ rebalanceTimer' =
                startRebalancing(rebalanceTimers, rebalanceTimer, rebalanceInterval').timer
    /\ serviceCalls' = serviceCalls + 1
    /\ UNCHANGED positions
    /\ UNCHANGED outsideService

\* destroy(): the timer is cleared unless it is null, the positions dropped
DestroyHedgeService ==
    /\ serviceCalls < MaxServiceCalls
    /\ rebalanceTimers' = {IF t.id = rebalanceTimer THEN [t EXCEPT !.cleared = TRUE] ELSE t :
                              t \in rebalanceTimers}
    /\ rebalanceTimer' = 0
    /\ positions' = <<>>
    /\ serviceCalls' = serviceCalls + 1
    /\ UNCHANGED rebalanceInterval
    /\ UNCHANGED outsideService

(* --------------------------------------- SmartCache: sizes and eviction *)

\* The invocation of set: pc "idle" (none) or "loop" (at the head of its
\* while loop, or past it and about to store the item)
NoSet == [pc |-> "idle", key |-> "", size |-> 0]

\* the index of the entry of `key` in the Map, or 0
entryOf(items, key) ==
    IF \E i \in 1 .. Len(items) : items[i].key = key
    THEN CHOOSE i \in 1 .. Len(items) : items[i].key = key
    ELSE 0

\* this.cache.delete(key)
without(items, i) == SubSeq(items, 1, i - 1) \o SubSeq(items, i + 1, Len(items))

\* (item.accessCount / age) * (1 / timeSinceLastAccess) at time t, as a
\* double: NaN, Infinity or a number (the quotients are kept exact, which
\* leaves the comparisons between entries as they are for the small counts
\* and times here)
valueOf(item, t) ==
    LET age == t - item.timestamp
        timeSinceLastAccess == t - item.lastAccess
    IN  IF age = 0
        THEN IF item.accessCount = 0 THEN [kind |-> "NaN", v |-> Zero]
             ELSE [kind |-> "Infinity", v |-> Zero]
        ELSE IF timeSinceLastAccess = 0
        THEN IF item.accessCount = 0 THEN [kind |-> "NaN", v |-> Zero]
             ELSE [kind |-> "Infinity", v |-> Zero]
        ELSE [kind |-> "number",
              v |-> RMul(Rat(item.accessCount, age), Rat(1, timeSinceLastAccess))]

\* value < leastValue
lessValue(value, leastValue) ==
    /\ value.kind = "number"
    /\ \/ leastValue.kind = "Infinity"
       \/ leastValue.kind = "number" /\ RLt(value.v, leastValue.v)

\* the forEach of evictLeastValuable from entry i on: leastValuableKey (as
\* an index, 0 for null) with the leastValue so far
RECURSIVE leastFrom(_, _, _, _, _)
leastFrom(items, i, t, leastIndex, leastValue) ==
    IF i > Len(items) THEN leastIndex
    ELSE IF lessValue(valueOf(items[i], t), leastValue)
    THEN leastFrom(items, i + 1, t, i, valueOf(items[i], t))
    ELSE leastFrom(items, i + 1, t, leastIndex, leastValue)

leastValuable(items, t) == leastFrom(items, 1, t, 0, [kind |-> "Infinity", v |-> Zero])

\* stats after an entry of the size given was deleted
shrunk(st, size) ==
    [totalSize |-> st.totalSize - size, itemCount |-> st.itemCount - 1]

\* evictLeastValuable() at time t: the entry it selects is deleted, if any
evictLeastValuable(items, st, t) ==
    IF leastValuable(items, t) = 0 THEN [items |-> items, stats |-> st]
    ELSE [items |-> without(items, leastValuable(items, t)),
          stats |-> shrunk(st, items[leastValuable(items, t)].size)]

\* The end of set: this.cache.set(key, item), which replaces the entry of a
\* key that is present where it stands; stats.totalSize += size;
\* stats.itemCount++
stored(items, st, key, size, t) ==
    [items |-> IF entryOf(items, key) = 0
               THEN Append(items, [key |-> key, size |-> size, timestamp |-> t,
                                   accessCount |-> 0, lastAccess |-> t])
               ELSE [items EXCEPT ![entryOf(items, key)] =
                        [key |-> key, size |-> size, timestamp |-> t,
                         accessCount |-> 0, lastAccess |-> t]],
     stats |-> [totalSize |-> st.totalSize + size, itemCount |-> st.itemCount + 1]]

\* A client calls set(key, data), the data of a size of SmartSizes: an item
\* larger than maxSize is not cached, any other comes to the while loop
SmartSetCall ==
    /\ smartSet.pc = "idle"
    /\ smartOps < MaxSmartOps
    /\ \E key \in SmartKeys, size \in SmartSizes :
        smartSet' = IF size > SmartMaxSize THEN NoSet
                    ELSE [pc |-> "loop", key |-> key, size |-> size]
    /\ smartOps' = smartOps + 1
    /\ UNCHANGED <<now, smartItems, smartStats, smartCleanupDue>>
    /\ UNCHANGED outsideSmart

\* set goes on: one pass of while (totalSize + size > maxSize)
\* evictLeastValuable(), or past the loop the item is stored.  A pass that
\* selects no entry of a cache that has entries is repeated until Date.now()
\* has moved on, when every entry has a value that is a number; a pass on a
\* cache without entries changes nothing.
SmartSetStep ==
    /\ smartSet.pc = "loop"
    /\ IF smartStats.totalSize + smartSet.size > SmartMaxSize
       THEN /\ now' = IF leastValuable(smartItems, now) = 0 /\ smartItems # <<>>
                      THEN now + 1 ELSE now
            /\ smartItems' = evictLeastValuable(smartItems, smartStats, now').items
            /\ smartStats' = evictLeastValuable(smartItems, smartStats, now').stats
            /\ smartSet' = smartSet
       ELSE /\ now' = now
            /\ smartItems' =
                    stored(smartItems, smartStats, smartSet.key, smartSet.size, now).items
            /\ smartStats' =
                    stored(smartItems, smartStats, smartSet.key, smartSet.size, now).stats
            /\ smartSet' = NoSet
    /\ UNCHANGED <<smartCleanupDue, smartOps>>
    /\ UNCHANGED outsideSmart

\* A client calls get(key): an expired entry is deleted, any other entry is
\* counted as accessed
SmartGet ==
    /\ smartSet.pc = "idle"
    /\ smartOps < MaxSmartOps
    /\ \E key \in SmartKeys :
        LET i == entryOf(smartItems, key)
        IN  IF i = 0 THEN UNCHANGED <<smartItems, smartStats>>
            ELSE IF now - smartItems[i].timestamp > SmartMaxAge
            THEN /\ smartItems' = without(smartItems, i)
                 /\ smartStats' = shrunk(smartStats, smartItems[i].size)
            ELSE /\ smartItems' = [smartItems EXCEPT ![i].accessCount = @ + 1,
                                                      ![i].lastAccess = now]
                 /\ smartStats' = smartStats
    /\ smartOps' = smartOps + 1
    /\ UNCHANGED <<now, smartSet, smartCleanupDue>>
    /\ UNCHANGED outsideSmart

\* A client calls delete(key)
SmartDelete ==
    /\ smartSet.pc = "idle"
    /\ smartOps < MaxSmartOps
    /\ \E key \in SmartKeys :
        LET i == entryOf(smartItems, key)
        IN  IF i = 0 THEN UNCHANGED <<smartItems, smartStats>>
            ELSE /\ smartItems' = without(smartItems, i)
                 /\ smartStats' = shrunk(smartStats, smartItems[i].size)
    /\ smartOps' = smartOps + 1
    /\ UNCHANGED <<now, smartSet, smartCleanupDue>>
    /\ UNCHANGED outsideSmart

\* the sizes of the entries of `items` from entry i on, added up
RECURSIVE sizesFrom(_, _)
sizesFrom(items, i) ==
    IF i > Len(items) THEN 0 ELSE items[i].size + sizesFrom(items, i + 1)

\* The cleanup timer fires: every expired entry is deleted
SmartCleanup ==
    /\ smartSet.pc = "idle"
    /\ smartCleanupDue <= now
    /\ smartItems' = SelectSeq(smartItems, LAMBDA item : ~(now - item.timestamp > SmartMaxAge))
    /\ smartStats' =
            [totalSize |-> smartStats.totalSize
                              - (sizesFrom(smartItems, 1) - sizesFrom(smartItems', 1)),
             itemCount |-> smartStats.itemCount - (Len(smartItems) - Len(smartItems'))]
    /\ smartCleanupDue' = smartCleanupDue + SmartCleanupInterval
    /\ UNCHANGED <<now, smartSet, smartOps>>
    /\ UNCHANGED outsideSmart

\* A millisecond passes, unless the cleanup timer is due
SmartTick ==
    /\ smartSet.pc = "idle"
    /\ now < smartCleanupDue
    /\ now < MaxSmartClock
    /\ now' = now + 1
    /\ UNCHANGED smartVars
    /\ UNCHANGED outsideSmart

(* ------------------------------------------- functions called on their own *)

NoProbe == [fn |-> "none"]

\* calculateHedgeAmount(loanAmount, creditScore) is called
ApplyCalculateHedgeAmount ==
    /\ \E l \in AmountLoans, sc \in AmountScores :
        probe' = [fn |-> "calculateHedgeAmount", loanAmount |-> l, creditScore |-> sc,
                  result |-> calculateHedgeAmount(Num(l), sc)]
    /\ UNCHANGED <<bucket64, drained, ttlVars, chainVars, lateVars>>
    /\ UNCHANGED outsidePure

(* ------------------------------------- RateLimiter: the tokens as doubles *)

NoBucket64 == [present |-> FALSE, tokens |-> DZero, lastRefill |-> 0]

\* at: when an acquire took the last token; calls: the acquire calls on the
\* bucket since; callAt: the time of the latest; taken: one of them got tokens
NeverDrained == [at |-> -1, calls |-> 0, callAt |-> -1, taken |-> FALSE]

\* refillBucket(bucket) at time t
refillBucket64(bucket, t) ==
    [bucket EXCEPT
        !.tokens = DMin(DNum(defaultMaxTokens),
                        DAdd(bucket.tokens, DMul(DDiv(t - bucket.lastRefill, 1000), refillRate))),
        !.lastRefill = t]

\* if (bucket.tokens >= tokens) bucket.tokens -= tokens, on the refilled bucket
takeFrom64(filled, tokens) ==
    IF DLe(DNum(tokens), filled.tokens)
    THEN [ok |-> TRUE, bucket |-> [filled EXCEPT !.tokens = DSub(filled.tokens, DNum(tokens))]]
    ELSE [ok |-> FALSE, bucket |-> filled]

\* acquire(key, tokens, timeout = 0) at time t, on the bucket of the key, or
\* on a new full one
acquire64(bucket, tokens, t) ==
    IF bucket.present THEN takeFrom64(refillBucket64(bucket, t), tokens)
    ELSE takeFrom64(refillBucket64([present |-> TRUE, tokens |-> DNum(defaultMaxTokens),
                                    lastRefill |-> t], t), tokens)

\* The first acquire of the key asks for maxTokens tokens: the new bucket is
\* left with 0
DrainBucket ==
    /\ ~bucket64.present
    /\ bucket64' = acquire64(bucket64, defaultMaxTokens, now).bucket
    /\ drained' = [NeverDrained EXCEPT !.at = now]
    /\ UNCHANGED <<now, refillDue>>
    /\ UNCHANGED outsideRefill

recordedCall(r) ==
    /\ bucket64' = r.bucket
    /\ drained' = [drained EXCEPT !.calls = @ + 1, !.callAt = now, !.taken = @ \/ r.ok]

\* A client calls acquire(key, tokens) on the bucket
Acquire64 ==
    /\ bucket64.present
    /\ drained.calls < MaxAcquires64
    /\ \E tokens \in Costs64 : recordedCall(acquire64(bucket64, tokens, now))
    /\ UNCHANGED <<now, refillDue>>
    /\ UNCHANGED outsideRefill

\* The refill timer fires
RefillTimer64 ==
    /\ refillDue <= now
    /\ bucket64' = IF bucket64.present THEN refillBucket64(bucket64, now) ELSE bucket64
    /\ refillDue' = refillDue + refillInterval
    /\ UNCHANGED <<now, drained>>
    /\ UNCHANGED outsideRefill

\* Time passes, up to the refill timer at most
Tick64 ==
    /\ \E t \in {now + d : d \in Steps64} \cup {refillDue} :
        /\ t > now
        /\ t <= refillDue
        /\ t <= MaxClock64
        /\ (t % refillInterval) \in Instants64
        /\ now' = t
    /\ UNCHANGED <<bucket64, drained, refillDue>>
    /\ UNCHANGED outsideRefill

(* ------------------------------------------- PriceCache and CacheManager *)

\* a Map without entry for the key; data "null" is JavaScript's null
NoEntry == [present |-> FALSE, data |-> "null", timestamp |-> 0]
\* a call: n counts the calls; found says what a get found ("hit", "expired",
\* "absent")
NoCacheOp ==
    [n |-> 0, fn |-> "none", on |-> "", key |-> "", data |-> "null", at |-> 0, found |-> ""]

\* cache.set(key, { data, timestamp: Date.now() })
ttlSet(c, key, data, t) ==
    [c EXCEPT ![key] = [present |-> TRUE, data |-> data, timestamp |-> t]]

ttlGetKeepsExpired(c, key, ttl, t) ==
    IF ~c[key].present THEN [data |-> "null", cache |-> c, found |-> "absent"]
    ELSE IF t - c[key].timestamp > ttl
    THEN [data |-> "null", cache |-> c, found |-> "expired"]
    ELSE [data |-> c[key].data, cache |-> c, found |-> "hit"]

\* get(key) on Map c with time-to-live ttl: what it returns, and the Map after
ttlGet(c, key, ttl, t) ==
    IF ~c[key].present THEN [data |-> "null", cache |-> c, found |-> "absent"]
    ELSE IF t - c[key].timestamp > ttl
    THEN [data |-> "null", cache |-> [c EXCEPT ![key] = NoEntry], found |-> "expired"]
    ELSE [data |-> c[key].data, cache |-> c, found |-> "hit"]

\* PriceCache.cleanup
cleanup(c, t) ==
    [k \in TtlKeys |->
        IF c[k].present /\ t - c[k].timestamp > priceCacheMaxAge THEN NoEntry ELSE c[k]]

called(fn, on, key, data, found) ==
    /\ cacheOp.n < MaxCacheOps
    /\ cacheOp' = [n |-> cacheOp.n + 1, fn |-> fn, on |-> on, key |-> key, data |-> data,
                   at |-> now, found |-> found]
    /\ UNCHANGED <<now, cleanupDue>>
    /\ UNCHANGED outsideTtl

\* PriceCache.set(pair, data)
PriceSet ==
    \E k \in TtlKeys, v \in TtlData :
        /\ priceCache' = ttlSet(priceCache, k, v, now)
        /\ called("set", "price", k, v, "")
        /\ UNCHANGED <<creditCache, groupCache>>

\* PriceCache.get(pair)
PriceGet ==
    \E k \in TtlKeys :
        /\ priceCache' = ttlGet(priceCache, k, priceCacheMaxAge, now).cache
        /\ called("get", "price", k, ttlGet(priceCache, k, priceCacheMaxAge, now).data,
                  ttlGet(priceCache, k, priceCacheMaxAge, now).found)
        /\ UNCHANGED <<creditCache, groupCache>>

\* PriceCache.clear()
PriceClear ==
    /\ priceCache' = [k \in TtlKeys |-> NoEntry]
    /\ called("clear", "price", "", "null", "")
    /\ UNCHANGED <<creditCache, groupCache>>

\* PriceCache's cleanup timer fires
CleanupTimer ==
    /\ cleanupDue <= now
    /\ priceCache' = cleanup(priceCache, now)
    /\ cleanupDue' = (now \div cleanupInterval + 1) * cleanupInterval
    /\ UNCHANGED <<now, creditCache, groupCache, cacheOp>>
    /\ UNCHANGED outsideTtl

\* CacheManager.setCreditSBT(address, sbt)
SetCreditSBT ==
    \E k \in TtlKeys, v \in TtlData :
        /\ creditCache' = ttlSet(creditCache, k, v, now)
        /\ called("set", "credit", k, v, "")
        /\ UNCHANGED <<priceCache, groupCache>>

\* CacheManager.getCreditSBT(address)
GetCreditSBT ==
    \E k \in TtlKeys :
        /\ creditCache' = ttlGet(creditCache, k, CACHE_DURATION, now).cache
        /\ called("get", "credit", k, ttlGet(creditCache, k, CACHE_DURATION, now).data,
                  ttlGet(creditCache, k, CACHE_DURATION, now).found)
        /\ UNCHANGED <<priceCache, groupCache>>

\* CacheManager.setGroupSBT(groupId, sbt)
SetGroupSBT ==
    \E k \in TtlKeys, v \in TtlData :
        /\ groupCache' = ttlSet(groupCache, k, v, now)
        /\ called("set", "group", k, v, "")
        /\ UNCHANGED <<priceCache, creditCache>>

\* CacheManager.getGroupSBT(groupId)
GetGroupSBT ==
    \E k \in TtlKeys :
        /\ groupCache' = ttlGet(groupCache, k, CACHE_DURATION, now).cache
        /\ called("get", "group", k, ttlGet(groupCache, k, CACHE_DURATION, now).data,
                  ttlGet(groupCache, k, CACHE_DURATION, now).found)
        /\ UNCHANGED <<priceCache, creditCache>>

\* CacheManager.invalidateCredit(address)
InvalidateCredit ==
    \E k \in TtlKeys :
        /\ creditCache' = [creditCache EXCEPT ![k] = NoEntry]
        /\ called("invalidate", "credit", k, "null", "")
        /\ UNCHANGED <<priceCache, groupCache>>

\* CacheManager.invalidateGroup(groupId)
InvalidateGroup ==
    \E k \in TtlKeys :
        /\ groupCache' = [groupCache EXCEPT ![k] = NoEntry]
        /\ called("invalidate", "group", k, "null", "")
        /\ UNCHANGED <<priceCache, creditCache>>

\* CacheManager.clear()
ManagerClear ==
    /\ creditCache' = [k \in TtlKeys |-> NoEntry]
    /\ groupCache' = [k \in TtlKeys |-> NoEntry]
    /\ called("clear", "manager", "", "null", "")
    /\ UNCHANGED priceCache

\* Time passes: a millisecond, or the time-to-live
TtlTick ==
    /\ \E d \in {1, CACHE_DURATION} :
        /\ now + d <= MaxCacheClock
        /\ (now + d) % CACHE_DURATION <= 1
        /\ now' = now + d
    /\ UNCHANGED ttlVars
    /\ UNCHANGED outsideTtl

(* ----------------------------------------------------------- specification *)

Init ==
    /\ now = 0
    /\ score = [b \in Borrowers |-> 0]
    /\ positions = <<>>
    /\ buckets = [k \in RLKeys |-> NoBucket]
    /\ stats = [k \in RLKeys |-> NoStats]
    /\ cache = [k \in CacheKeys |-> NoItem]
    /\ calls = [c \in CallIds |-> IdleCall]
    /\ started = 0
    /\ sweep = IdleSweep
    /\ row = Undisturbed
    /\ monitoringMap = [b \in Borrowers |-> NotMonitored]
    /\ intervals = {}
    /\ monitorCall = NoMonitorCall
    /\ checks = [k \in CheckIds |-> IdleCheck]
    /\ retryTimers = {}
    /\ checksStarted = 0
    /\ alerts = <<>>
    /\ alertCallbacks = <<>>
    /\ checkFailed = <<>>
    /\ walletLog = <<>>
    /\ ledger = <<>>
    /\ procs = [p \in ProcIds |-> IdleProc]
    /\ refillDue = refillInterval
    /\ queue = <<>>
    /\ txs = [t \in TxIds |-> NoTx]
    /\ processing = FALSE
    /\ batch = <<>>
    /\ pushTimers = {}
    /\ processDue = processingInterval
    /\ probe = NoProbe
    /\ bucket64 = NoBucket64
    /\ drained = NeverDrained
    /\ priceCache = [k \in TtlKeys |-> NoEntry]
    /\ creditCache = [k \in TtlKeys |-> NoEntry]
    /\ groupCache = [k \in TtlKeys |-> NoEntry]
    /\ cleanupDue = cleanupInterval
    /\ cacheOp = NoCacheOp
    /\ userStores = [a \in Accounts |-> NoStore]
    /\ hedgeStats = [total_positions |-> 0, total_hedged_amount |-> U64(0),
                     average_hedge_ratio |-> 0]
    /\ chainTime = ChainTimes[1]
    /\ lastTx = NoTransaction
    /\ rebalanceTimers = startRebalancing({}, 0, defaultRebalanceInterval).timers
    /\ rebalanceTimer = startRebalancing({}, 0, defaultRebalanceInterval).timer
    /\ rebalanceInterval = defaultRebalanceInterval
    /\ serviceCalls = 0
    /\ smartItems = <<>>
    /\ smartStats = [totalSize |-> 0, itemCount |-> 0]
    /\ smartSet = NoSet
    /\ smartCleanupDue = SmartCleanupInterval
    /\ smartOps = 0

Next ==
    \/ CallEvaluateAndHedge
    \/ \E c \in CallIds : PriceFetched(c)
    \/ \E c \in CallIds : PriceFailed(c)
    \/ \E c \in CallIds : OrderFilled(c)
    \/ \E c \in CallIds : OrderFailed(c)
    \/ \E c \in CallIds : Settle(c)
    \/ SweepStart
    \/ SweepPriceFetched
    \/ SweepPriceFailed
    \/ SweepOrderFilled
    \/ SweepOrderFailed
    \/ Tick
    \/ ScoreChange

Spec == Init /\ [][Next]_vars

\* The credit monitor and the evaluateAndHedge calls it makes
NextMonitor ==
    \/ StartMonitoring
    \/ StopMonitoring
    \/ UpdateConfig
    \/ OnAlert
    \/ TimerTick
    \/ IntervalFires
    \/ RetryFires
    \/ \E k \in CheckIds : LedgerSubmitted(k)
    \/ \E k \in CheckIds : LedgerFailed(k)
    \/ \E c \in CallIds : PriceFetched(c)
    \/ \E c \in CallIds : PriceFailed(c)
    \/ \E c \in CallIds : OrderFilled(c)
    \/ \E c \in CallIds : OrderFailed(c)
    \/ \E k \in CheckIds : CheckHedged(k)
    \/ ScoreChange

SpecMonitor == Init /\ [][NextMonitor]_vars

\* The ticks of one monitored borrower over two check intervals, with a
\* score source that changes its answer
NextTicks ==
    \/ StartMonitoringOf(TickBorrowers)
    \/ OnAlert
    \/ TimerTickWithin(TickChecks, TickClock)
    \/ IntervalFiresWithin(TickChecks)
    \/ RetryFiresWithin(TickChecks)
    \/ \E k \in CheckIds : LedgerSubmitted(k)
    \/ \E k \in CheckIds : LedgerFailed(k)
    \/ \E c \in CallIds : PriceFetched(c)
    \/ \E c \in CallIds : PriceFailed(c)
    \/ \E c \in CallIds : OrderFilled(c)
    \/ \E c \in CallIds : OrderFailed(c)
    \/ \E k \in CheckIds : CheckHedged(k)
    \/ ScoreChangeOf(TickBorrowers, TickScores)

SpecTicks == Init /\ [][NextTicks]_vars

\* The retries of the checks of one monitored borrower over two check
\* intervals, with a score source that may fail
NextRetry ==
    \/ StartMonitoringOf(TickBorrowers)
    \/ TimerTickWithin(RetryChecks, TickClock)
    \/ IntervalFiresWithin(RetryChecks)
    \/ RetryFiresWithin(RetryChecks)
    \/ \E k \in CheckIds : LedgerSubmitted(k)
    \/ \E k \in CheckIds : LedgerFailed(k)
    \/ \E c \in CallIds : PriceFetched(c)
    \/ \E c \in CallIds : PriceFailed(c)
    \/ \E c \in CallIds : OrderFilled(c)
    \/ \E c \in CallIds : OrderFailed(c)
    \/ \E k \in CheckIds : CheckHedged(k)
    \/ ScoreChangeOf(TickBorrowers, RetryScores)

SpecRetry == Init /\ [][NextRetry]_vars

\* The checks of two monitored borrowers whose ticks fall together, so that
\* the rate limiter admits the hedge of one and denies the other's
NextDenial ==
    \/ StartMonitoringOf(Borrowers)
    \/ TimerTickWithin(DenialChecks, TickClock)
    \/ IntervalFiresWithin(DenialChecks)
    \/ RetryFiresWithin(DenialChecks)
    \/ \E k \in CheckIds : LedgerSubmitted(k)
    \/ \E k \in CheckIds : LedgerFailed(k)
    \/ \E c \in CallIds : PriceFetched(c)
    \/ \E c \in CallIds : PriceFailed(c)
    \/ \E c \in CallIds : OrderFilled(c)
    \/ \E c \in CallIds : OrderFailed(c)
    \/ \E k \in CheckIds : CheckHedged(k)

SpecDenial == Init /\ [][NextDenial]_vars

\* The HedgeService under clients that call updateConfig and destroy
NextService ==
    \/ UpdateHedgeConfig
    \/ DestroyHedgeService

SpecService == Init /\ [][NextService]_vars

\* A SmartCache of a small maxSize under clients that call set, get and
\* delete, with its cleanup timer
NextSmart ==
    \/ SmartSetCall
    \/ SmartSetStep
    \/ SmartGet
    \/ SmartDelete
    \/ SmartCleanup
    \/ SmartTick

SpecSmart == Init /\ [][NextSmart]_vars

\* The same, with a set that goes on once it was called
SpecSmartLive == Init /\ [][NextSmart]_vars /\ WF_vars(SmartSetStep)

\* The transactions of hedge_contract, after initialize and with the price
\* oracle set up
NextChain ==
    \/ CreateTx
    \/ CloseTx
    \/ AdjustTx
    \/ NextBlock

SpecChain == Init /\ [][NextChain]_vars

\* HedgeService with one borrower whose positions are opened and closed at
\* prices that differ
NextClose ==
    \/ CallFrom(CloseBorrowers, CloseScores)
    \/ \E c \in CallIds : PriceFetchedAt(c, ClosePrices)
    \/ \E c \in CallIds : PriceFailed(c)
    \/ \E c \in CallIds : OrderFilled(c)
    \/ \E c \in CallIds : OrderFailed(c)
    \/ \E c \in CallIds : Settle(c)
    \/ SweepStart
    \/ SweepPriceFetchedAt(ClosePrices)
    \/ SweepPriceFailed
    \/ SweepOrderFilled
    \/ SweepOrderFailed
    \/ Wait
    \/ ScoreChangeOf(CloseBorrowers, SourceScores)

SpecClose == Init /\ [][NextClose]_vars

\* calculateHedgeAmount on its own
NextAmount == ApplyCalculateHedgeAmount

SpecAmount == Init /\ [][NextAmount]_vars

\* PriceCache and CacheManager under clients that call them
NextTtl ==
    \/ PriceSet
    \/ PriceGet
    \/ PriceClear
    \/ CleanupTimer
    \/ SetCreditSBT
    \/ GetCreditSBT
    \/ SetGroupSBT
    \/ GetGroupSBT
    \/ InvalidateCredit
    \/ InvalidateGroup
    \/ ManagerClear
    \/ TtlTick

SpecTtl == Init /\ [][NextTtl]_vars

\* One bucket of the rate limiter, emptied and then refilled, its tokens as
\* doubles
NextRefill ==
    \/ DrainBucket
    \/ Acquire64
    \/ RefillTimer64
    \/ Tick64

SpecRefill == Init /\ [][NextRefill]_vars

\* The rate limiter under clients that call acquire and acquireBatch
NextLimiter ==
    \/ AcquireCall
    \/ \E p \in ProcIds : AcquireWake(p)
    \/ BatchCall
    \/ \E p \in ProcIds : BatchResume(p)
    \/ \E p \in ProcIds : BatchRetryResume(p)
    \/ \E p \in ProcIds : BatchWake(p)
    \/ \E p \in ProcIds : ProcReturn(p)
    \/ RefillTimer
    \/ LimiterTick

SpecRL == Init /\ [][NextLimiter]_vars

\* The rate limiter under clients that call acquire, acquireBatch and clear
\* on one key
NextClear ==
    \/ AcquireCallOf(ClearCalls, ClearKeys, ClearCosts)
    \/ \E p \in ProcIds : AcquireWake(p)
    \/ BatchCallOf(ClearCalls, ClearBatches)
    \/ \E p \in ProcIds : BatchResume(p)
    \/ \E p \in ProcIds : BatchRetryResume(p)
    \/ \E p \in ProcIds : BatchWake(p)
    \/ \E p \in ProcIds : ProcReturn(p)
    \/ Clear
    \/ RefillTimer
    \/ LimiterTick

SpecClear == Init /\ [][NextClear]_vars

\* The BatchProcessor under clients that add transactions
NextQueue ==
    \/ AddTransaction
    \/ ProcessTimer
    \/ \E i \in 1 .. MaxSubmissions : SubmitReturns(i)
    \/ \E i \in 1 .. MaxSubmissions : SubmitFails(i)
    \/ PushTimer
    \/ QueueTick

SpecBP == Init /\ [][NextQueue]_vars

\* A BatchProcessor whose config has a maxBatchSize below the number of
\* transactions that clients add
NextDrain ==
    \/ AddTransaction
    \/ ProcessTimerWith(DrainBatchSize)
    \/ \E i \in 1 .. MaxSubmissions : SubmitReturns(i)
    \/ \E i \in 1 .. MaxSubmissions : SubmitFails(i)
    \/ PushTimer
    \/ QueueTick

SpecDrain == Init /\ [][NextDrain]_vars

\* A BatchProcessor of that config under clients that add transactions and
\* then destroy it
NextDestroy ==
    \/ AddBeforeDestroy
    \/ ProcessTimerWith(DrainBatchSize)
    \/ \E i \in 1 .. MaxSubmissions : SubmitReturns(i)
    \/ \E i \in 1 .. MaxSubmissions : SubmitFails(i)
    \/ PushTimer
    \/ QueueTick
    \/ Destroy

SpecDestroy == Init /\ [][NextDestroy]_vars

(* ------------------------------------------------------ HedgeService: claims *)

OpenPositionsOf(b) ==
    {i \in 1 .. Len(positions) :
        positions[i].status = "open" /\ positions[i].id.borrowerId = b}

\* C1: the position map holds at most one open position for any one borrower
C1_OneOpenPositionPerBorrower ==
    \A b \in Borrowers : Cardinality(OpenPositionsOf(b)) <= 1

\* C2: every position that evaluateAndHedge inserts into the map has an
\* amount greater than zero
C2_PositionAmountPositive ==
    \A i \in 1 .. Len(positions) : RLt(Zero, positions[i].amount)

C9_NoOpAtOrAboveThreshold ==
    \A c \in CallIds :
        (calls[c].pc # "idle" /\ calls[c].creditScore >= creditScoreThreshold)
            => /\ ~calls[c].tokenTaken
               /\ ~calls[c].priceRead
               /\ ~calls[c].orderPlaced
               /\ ~calls[c].inserted

\* a step in which rateLimiter.acquire('hedge', 1) returns false
Denied == stats'["hedge"].rejectedRequests = stats["hedge"].rejectedRequests + 1

\* C10: when the rate limiter denies the token, the evaluateAndHedge that
\* asked for it fails in the same step with the rate-limit error, having
\* asked once, read no price and placed no order, and the map is unchanged
C10_DenialFailsTheCall ==
    [][Denied =>
        /\ \E c \in CallIds :
              /\ calls[c].pc = "idle"
              /\ calls'[c].pc = "failed" /\ calls'[c].error = "RateLimit"
              /\ ~calls'[c].tokenTaken /\ ~calls'[c].priceRead
              /\ ~calls'[c].orderPlaced /\ ~calls'[c].inserted
              /\ \A e \in CallIds \ {c} : calls'[e] = calls[e]
        /\ stats'["hedge"].totalRequests = stats["hedge"].totalRequests + 1
        /\ RLe(buckets["hedge"].tokens, buckets'["hedge"].tokens)
        /\ positions' = positions]_vars

\* An evaluateAndHedge has failed on a denial
C10_Witness ==
    /\ stats["hedge"].rejectedRequests > 0
    /\ \E c \in CallIds : calls[c].pc = "failed" /\ calls[c].error = "RateLimit"

(* ---------------------------------------------------- CreditMonitor: claims *)

\* C7: when the market order of a hedge attempt fails, no position of that
\* attempt is recorded: none was inserted in the map, none created on the
\* Ledger
C7_MarketFailureRecordsNothing ==
    \A k \in CheckIds :
        (/\ checks[k].pc = "hedge"
         /\ calls[checks[k].child].pc = "failed"
         /\ calls[checks[k].child].error = "Market")
            => (~calls[checks[k].child].inserted /\ ~checks[k].ledgerCreated)

\* C8: every Ledger write that reaches walletService.submitTransaction was
\* submitted by the BatchProcessor
C8_WritesGoThroughTheQueue ==
    \A i \in 1 .. Len(walletLog) : walletLog[i].by = "BatchProcessor"

(* ------------------------------------------------------ RateLimiter: claims *)

\* C3: every bucket holds at least 0 and at most maxTokens tokens
C3_TokensWithinBounds ==
    \A k \in RLKeys :
        buckets[k].present
            => RLe(Zero, buckets[k].tokens) /\ RLe(buckets[k].tokens, Num(maxTokens))

\* C4: an acquireBatch that returns false for some key has taken no tokens
\* from any bucket
C4_BatchNeverPartial ==
    \A p \in ProcIds :
        (/\ procs[p].kind = "batch"
         /\ procs[p].pc = "done"
         /\ \E k \in RLKeys : procs[p].results[k] = "false")
            => ~procs[p].deducted

(* --------------------------------------------------- BatchProcessor: claims *)

\* C5: a transaction whose submissions all fail is submitted at most
\* 1 + maxRetries times, and when it is recorded as failed it has been
\* submitted exactly that often and is out of the queue for good
C5_FailingTxRetriedMaxRetriesTimes ==
    \A t \in TxIds :
        (txs[t].added /\ ~txs[t].succeeded)
            => /\ txs[t].submitted <= 1 + maxRetries
               /\ txs[t].result = "error"
                    => /\ txs[t].submitted = 1 + maxRetries
                       /\ \A i \in 1 .. Len(queue) : queue[i] # t
                       /\ \A timer \in pushTimers : timer.tx # t

(* ------------------------------------------------- HedgeService: close path *)

C14_AmountFlooredAndCapped ==
    probe.fn = "calculateHedgeAmount"
        => /\ probe.result =
                LET raw == RMul(RMul(Num(probe.loanAmount), Rat(1, 2)),
                                Rat(creditScoreThreshold - probe.creditScore,
                                    creditScoreThreshold))
                    capped == IF RLe(raw, Num(maxHedgeAmount)) THEN raw
                              ELSE Num(maxHedgeAmount)
                IN  IF RLe(Zero, capped) THEN capped ELSE Zero
           /\ (probe.loanAmount = 50000 /\ probe.creditScore = 0)
                => probe.result = Num(25000)

(* ------------------------------------------------------ RateLimiter refill *)

\* C15: a bucket emptied and then left without acquires for d whole seconds
\* holds exactly min(maxTokens, d * refillRate) tokens when it is refilled at
\* that time, whatever refills happened in between (the acquire that looks
\* at the bucket after the d seconds is denied, so that it takes nothing)
C15_RefillExact ==
    (/\ bucket64.present /\ drained.at >= 0 /\ ~drained.taken
     /\ drained.calls = 0 \/ (drained.calls = 1 /\ drained.callAt = now)
     /\ bucket64.lastRefill = now
     /\ (now - drained.at) % 1000 = 0)
        => bucket64.tokens =
              DNum(IF ((now - drained.at) \div 1000) * refillRate < defaultMaxTokens
                   THEN ((now - drained.at) \div 1000) * refillRate
                   ELSE defaultMaxTokens)

(* -------------------------------------------------------------- TTL caches *)

\* the Map of PriceCache or CacheManager that a call works on
ttlMapOf(on, p, c, g) == IF on = "price" THEN p ELSE IF on = "credit" THEN c ELSE g

\* C16: for PriceCache and CacheManager, get(k) immediately after set(k, v)
\* returns v; get(k) on an entry with now - timestamp > ttl returns null and
\* removes the entry; get(k) without entry returns null, and only set(k, ...)
\* makes an entry for k; invalidate(k) and clear() leave no entry for k
C16_TtlCacheRoundTrip ==
    [][/\ cacheOp'.n = cacheOp.n + 1 =>
            LET op == cacheOp'
                before == ttlMapOf(op.on, priceCache, creditCache, groupCache)
                after == ttlMapOf(op.on, priceCache', creditCache', groupCache')
                ttl == IF op.on = "price" THEN priceCacheMaxAge ELSE CACHE_DURATION
            IN  /\ (/\ op.fn = "get" /\ cacheOp.fn = "set" /\ cacheOp.on = op.on
                     /\ cacheOp.key = op.key /\ cacheOp.at = now)
                        => op.data = cacheOp.data
                /\ (/\ op.fn = "get" /\ before[op.key].present
                     /\ now - before[op.key].timestamp > ttl)
                        => op.data = "null" /\ ~after[op.key].present
                /\ (op.fn = "get" /\ ~before[op.key].present)
                        => op.data = "null" /\ ~after[op.key].present
                /\ op.fn = "invalidate" => ~after[op.key].present
                /\ (op.fn = "clear" /\ op.on = "price")
                        => \A k \in TtlKeys : ~priceCache'[k].present
                /\ (op.fn = "clear" /\ op.on = "manager")
                        => \A k \in TtlKeys : ~creditCache'[k].present /\ ~groupCache'[k].present
       /\ \A on \in {"price", "credit", "group"}, k \in TtlKeys :
            (/\ ~ttlMapOf(on, priceCache, creditCache, groupCache)[k].present
             /\ ttlMapOf(on, priceCache', creditCache', groupCache')[k].present)
                => cacheOp' = [cacheOp' EXCEPT !.fn = "set", !.on = on, !.key = k]
                   /\ cacheOp'.n = cacheOp.n + 1]_vars

\* a get has found an expired entry after three other calls
C16_Witness ==
    /\ cacheOp.fn = "get" /\ cacheOp.found = "expired"
    /\ cacheOp.n = MaxCacheOps
    /\ \A k \in TtlKeys : ~ttlMapOf(cacheOp.on, priceCache, creditCache, groupCache)[k].present

(* ------------------------------------------------------- cached ETH price *)

\* the cached ETH/USDC price is at most 10 s old
PriceIsFresh == cache[PriceKey].present /\ now - cache[PriceKey].timestamp <= priceMaxAge

\* C17: whenever getETHPrice returns the cached price (evaluateAndHedge or
\* closePosition goes on to its market order without asking the Market), that
\* price was cached at most 10 s before
C17_CachedPriceAtMostTenSeconds ==
    [][/\ \A c \in CallIds :
            (calls[c].pc \notin {"price", "order"} /\ calls'[c].pc = "order") => PriceIsFresh
       /\ (/\ sweep.pc # "price" /\ sweep'.pc = "order"
           /\ sweep.pc = "order" => sweep'.idx # sweep.idx)
            => PriceIsFresh]_vars

(* ------------------------------------------- CreditMonitor: stop and start *)

\* C18: a check of a borrower starts only while the borrower is monitored:
\* the retry of a failed check does not start once stopMonitoring has
\* removed the borrower (the interval timer of a borrower exists only while
\* the borrower is monitored)
C18_NoCheckAfterStop ==
    [][\A t \in retryTimers :
          (t \notin retryTimers' /\ checksStarted' = checksStarted + 1)
              => monitoringMap[t.borrowerId].armed]_vars

(* --------------------------------------- CreditMonitor: one schedule each *)

\* the interval timers of a borrower that fire
schedulesOf(timers, b) == {t \in timers : t.borrowerId = b /\ ~t.cleared}

\* C19: whatever startMonitoring, stopMonitoring and updateConfig calls were
\* made, at most one interval timer of a borrower is live; a startMonitoring
\* call for a borrower that the Map has leaves the timers, the Map and the
\* cache as they are; a startMonitoring call for a borrower that the Map
\* does not have (at first, or after stopMonitoring) makes one new timer
\* that is due a checkInterval later, which the Map stores
C19_OneSchedulePerBorrower ==
    [][/\ \A b \in Borrowers : Cardinality(schedulesOf(intervals', b)) <= 1
       /\ (monitorCall'.n # monitorCall.n /\ monitorCall'.fn = "startMonitoring")
            => IF monitoringMap[monitorCall'.borrowerId].armed
               THEN UNCHANGED <<intervals, monitoringMap, cache>>
               ELSE \E t \in intervals' \ intervals :
                       /\ schedulesOf(intervals', monitorCall'.borrowerId) = {t}
                       /\ t.due = now + checkInterval
                       /\ monitoringMap'[monitorCall'.borrowerId]
                              = [armed |-> TRUE, id |-> t.id]]_vars

\* The third timer was made by startMonitoring for a borrower that was
\* monitored, then stopped, while the other borrower keeps the first timer
C19_Witness ==
    /\ monitorCall.fn = "startMonitoring"
    /\ monitoringMap[monitorCall.borrowerId] = [armed |-> TRUE, id |-> 3]
    /\ \E o \in Borrowers \ {monitorCall.borrowerId} :
          monitoringMap[o] = [armed |-> TRUE, id |-> 1]
    /\ Cardinality(schedulesOf(intervals, monitorCall.borrowerId)) = 1
    /\ Cardinality({t \in intervals : t.borrowerId = monitorCall.borrowerId}) = 2

(* ------------------------------------------- CreditMonitor: alert callbacks *)

\* C20: every registered callback, whether another callback throws or not,
\* has been called with each alert raised since onAlert registered it
C20_EveryObserverGetsTheAlert ==
    \A i \in 1 .. Len(alertCallbacks) :
        alertCallbacks[i].got
            = SubSeq(alerts, alertCallbacks[i].since + 1, Len(alerts))

(* ---------------------------------------------- CreditMonitor: the alerts *)

\* the risk level of a score
classifyRisk(s) == IF s < 500 THEN "high" ELSE IF s < 650 THEN "medium" ELSE "low"

\* the alert of a change of borrower b from score old to score new
CreditAlert(b, old, new) ==
    [borrowerId |-> b, oldScore |-> old, newScore |-> new, riskLevel |-> classifyRisk(new)]

\* the alert a is sent once to every callback, or (a = <<>>) none is sent
sentToAll(a) ==
    /\ alerts' = alerts \o a
    /\ Len(alertCallbacks') = Len(alertCallbacks)
    /\ \A i \in 1 .. Len(alertCallbacks) :
          alertCallbacks'[i] = [alertCallbacks[i] EXCEPT !.got = @ \o a]

retryOf(b, l, retryCount) ==
    [borrowerId |-> b, loanAmount |-> l, retryCount |-> retryCount + 1,
     due |-> now + minCheckInterval, cause |-> ""]

sent(fn) == lastTx'.n # lastTx.n /\ lastTx'.fn = fn

\* C23: create_hedge_position with amount 0 or a hedge_ratio outside
\* 1..10000 leaves the caller's positions and the HedgeStats as they are;
\* with any other arguments it appends one open position with the given
\* borrower_id, amount and hedge_ratio to the caller's positions
C23_CreateRejectsOrAppends ==
    [][sent("create_hedge_position")
        => IF \/ lastTx'.args.amount = U64(0)
              \/ lastTx'.args.hedge_ratio < 1
              \/ lastTx'.args.hedge_ratio > 10000
           THEN /\ userStores'[lastTx'.account].positions
                      = userStores[lastTx'.account].positions
                /\ hedgeStats' = hedgeStats
           ELSE /\ Len(userStores'[lastTx'.account].positions)
                      = Len(userStores[lastTx'.account].positions) + 1
                /\ SubSeq(userStores'[lastTx'.account].positions, 1,
                          Len(userStores[lastTx'.account].positions))
                      = userStores[lastTx'.account].positions
                /\ LET p == userStores'[lastTx'.account].positions[
                                Len(userStores'[lastTx'.account].positions)]
                   IN /\ p.status = "open"
                      /\ p.borrower_id = lastTx'.args.borrower_id
                      /\ p.amount = lastTx'.args.amount
                      /\ p.hedge_ratio = lastTx'.args.hedge_ratio]_vars

(* ------------------------------------------------- hedge_contract: close *)

\* the positions of the account that have the id and are open
openWithId(stores, account, position_id) ==
    {i \in 1 .. Len(stores[account].positions) :
        /\ stores[account].positions[i].position_id = position_id
        /\ stores[account].positions[i].status = "open"}

\* the step changes the position i of the account, and no other position
onlyChanged(account, i) ==
    /\ \A a \in Accounts \ {account} : userStores'[a] = userStores[a]
    /\ Len(userStores'[account].positions) = Len(userStores[account].positions)
    /\ \A j \in 1 .. Len(userStores[account].positions) :
          j # i => userStores'[account].positions[j] = userStores[account].positions[j]

\* C24: close_hedge_position changes nothing when the caller has no position
\* with the id or has it closed; when the caller has an open position with
\* the id, the call closes one such position and changes nothing else of it
\* or of any other position; no step opens a closed position again
C24_CloseOnceOnly ==
    [][/\ sent("close_hedge_position")
            => IF openWithId(userStores, lastTx'.account, lastTx'.args.position_id) = {}
               THEN userStores' = userStores /\ hedgeStats' = hedgeStats
               ELSE \E i \in openWithId(userStores, lastTx'.account,
                                         lastTx'.args.position_id) :
                        /\ userStores'[lastTx'.account].positions[i]
                              = [userStores[lastTx'.account].positions[i]
                                    EXCEPT !.status = "closed"]
                        /\ onlyChanged(lastTx'.account, i)
       /\ \A a \in Accounts :
            \A i \in 1 .. Len(userStores[a].positions) :
                userStores[a].positions[i].status = "closed"
                    => userStores'[a].positions[i].status = "closed"]_vars

(* ------------------------------------------------ hedge_contract: adjust *)

\* C25: adjust_hedge_ratio changes nothing when new_ratio is outside
\* 1..10000 or when the caller has no open position with the id; otherwise
\* it sets the hedge_ratio of one open position with the id to new_ratio and
\* leaves the other fields of that position, every other position and the
\* HedgeStats as they are
C25_AdjustOnlyTheRatio ==
    [][sent("adjust_hedge_ratio")
        => IF \/ lastTx'.args.new_ratio < 1
              \/ lastTx'.args.new_ratio > 10000
              \/ openWithId(userStores, lastTx'.account, lastTx'.args.position_id) = {}
           THEN userStores' = userStores /\ hedgeStats' = hedgeStats
           ELSE /\ \E i \in openWithId(userStores, lastTx'.account,
                                       lastTx'.args.position_id) :
                        /\ userStores'[lastTx'.account].positions[i]
                              = [userStores[lastTx'.account].positions[i]
                                    EXCEPT !.hedge_ratio = lastTx'.args.new_ratio]
                        /\ onlyChanged(lastTx'.account, i)
                /\ hedgeStats' = hedgeStats]_vars

(* ------------------------------------------------- hedge_contract: stats *)

\* the positions of all accounts, one account after the other
RECURSIVE positionsOf(_, _)
positionsOf(stores, accounts) ==
    IF accounts = {} THEN <<>>
    ELSE LET a == CHOOSE x \in accounts : TRUE
         IN stores[a].positions \o positionsOf(stores, accounts \ {a})

\* the sum of the amounts of the open positions among the first n of ps; it
\* is no u64 when it does not fit
RECURSIVE openAmount(_, _)
openAmount(ps, n) ==
    IF n = 0 THEN [value |-> U64(0), aborts |-> FALSE]
    ELSE IF ps[n].status # "open" THEN openAmount(ps, n - 1)
    ELSE IF openAmount(ps, n - 1).aborts THEN openAmount(ps, n - 1)
    ELSE U64Add(openAmount(ps, n - 1).value, ps[n].amount)

\* C26: total_hedged_amount is the sum of the amounts of the open positions
\* of all accounts, and total_positions is the number of positions created
\* (no position is ever removed), whatever transactions ran or aborted
C26_StatsMatchPositions ==
    /\ openAmount(positionsOf(userStores, Accounts),
                  Len(positionsOf(userStores, Accounts)))
          = [value |-> hedgeStats.total_hedged_amount, aborts |-> FALSE]
    /\ hedgeStats.total_positions = Len(positionsOf(userStores, Accounts))

\* Two accounts have created positions, one of them is closed, and the last
\* transaction adjusted a ratio
C26_Witness ==
    /\ lastTx.fn = "adjust_hedge_ratio" /\ ~lastTx.aborted
    /\ \E a, b \in Accounts :
          /\ a # b
          /\ Len(userStores[a].positions) = 1 /\ Len(userStores[b].positions) = 1
          /\ userStores[a].positions[1].status = "closed"
          /\ userStores[b].positions[1].status = "open"
    /\ hedgeStats.total_positions = 2
    /\ hedgeStats.total_hedged_amount # U64(0)


\* The step is a client's evaluateAndHedge(b, s, l), from its call to its
\* return or its first pending request
clientCalls(b, s, l) ==
    /\ started' = started + 1
    /\ FreeIn(calls) # 0
    /\ calls' = [calls EXCEPT ![FreeIn(calls)] = evaluateAndHedge("api", b, s, Num(l)).call]

\* C27: when evaluateAndHedge is called for a borrower with a recovered score
\* (at or above minCreditScoreToClose) and returns, every position that an
\* earlier evaluateAndHedge opened for that borrower has status closed
C27_RecoveredScoreClosesPosition ==
    [][\A b \in Borrowers, s \in Scores, l \in LoanAmounts :
        (/\ clientCalls(b, s, l)
         /\ s >= minCreditScoreToClose
         /\ calls'[FreeIn(calls)].pc = "done")
            => \A i \in 1 .. Len(positions) :
                   (/\ positions[i].id.borrowerId = b
                    /\ positions[i].creditScore < creditScoreThreshold)
                       => (i <= Len(positions') /\ positions'[i].status = "closed")]_vars


\* The bucket that acquire(key, ...) finds or makes, after refillBucket
refilled(key) ==
    IF buckets[key].present THEN refillBucket(buckets[key], now)
    ELSE [present |-> TRUE, tokens |-> Num(maxTokens), lastRefill |-> now]

\* The step is an acquire(key, cost, 0) of a client, in slot p, from its call
\* to its return
acquiresAtOnce(p, key, cost) ==
    /\ procs[p].pc = "idle"
    /\ procs'[p].pc = "done"
    /\ procs'[p].kind = "acquire"
    /\ procs'[p].timeout = 0
    /\ procs'[p].key = key
    /\ procs'[p].tokens = cost

\* C28: acquire(key, cost, 0) returns true exactly when the refilled bucket
\* holds at least cost tokens, and then leaves it with exactly cost tokens
\* fewer; when it returns false it takes nothing from the refilled bucket; the
\* buckets of all other keys are unchanged
C28_AcquireTakesExactlyCost ==
    [][\A p \in ProcIds, key \in RLKeys, cost \in Costs :
        acquiresAtOnce(p, key, cost)
            => /\ procs'[p].ok <=> RLe(Num(cost), refilled(key).tokens)
               /\ procs'[p].ok
                    => buckets'[key].tokens = RSub(refilled(key).tokens, Num(cost))
               /\ ~procs'[p].ok => buckets'[key].tokens = refilled(key).tokens
               /\ \A k \in RLKeys \ {key} : buckets'[k] = buckets[k]]_vars

\* An acquire(key, 1, 0) has emptied a bucket and the next acquire on the key
\* was turned down, while the other key has a bucket of its own
C28_Witness ==
    \E p, q \in ProcIds :
        /\ procs[p].pc = "done" /\ procs[p].kind = "acquire" /\ procs[p].timeout = 0
        /\ procs[p].ok /\ procs[p].tokens = 1
        /\ procs[q].pc = "done" /\ procs[q].kind = "acquire" /\ procs[q].timeout = 0
        /\ ~procs[q].ok /\ procs[q].key = procs[p].key
        /\ buckets[procs[p].key].tokens = Zero


\* an acquire on the key has been called and has not returned
acquirePending(key) ==
    \E p \in ProcIds :
        procs[p].kind = "acquire" /\ procs[p].pc = "sleep" /\ procs[p].key = key

\* C29: for every key, whenever no acquire on the key is pending,
\* totalRequests = acceptedRequests + rejectedRequests, whatever acquire calls
\* with a timeout, acquireBatch calls and clear(key) calls have been made
C29_TotalIsAcceptedPlusRejected ==
    \A key \in RLKeys :
        ~acquirePending(key)
            => stats[key].totalRequests
                   = stats[key].acceptedRequests + stats[key].rejectedRequests


\* The step is a drain: processBatch takes its batch and submits it
drains == ~processing /\ processing'

\* the queue is in the order of sortQueue: no entry goes before an earlier one
ordered(q) ==
    \A i, j \in 1 .. Len(q) : i < j => ~goesBefore(txs, q[j], q[i])

\* C30: each drain submits exactly the first min(maxBatchSize, queue length)
\* entries of the queue, which is ordered by priority descending and then
\* timestamp ascending, so that no entry left waiting ranks before a
\* submitted one
C30_DrainTakesTheHead ==
    [][drains =>
        LET n == IF Len(queue) < DrainBatchSize THEN Len(queue) ELSE DrainBatchSize
        IN  /\ ordered(queue)
            /\ Len(batch') = n
            /\ \A i \in 1 .. n : batch'[i].tx = queue[i]
            /\ \A t \in TxIds :
                   txs'[t].submitted
                       = txs[t].submitted + Cardinality({i \in 1 .. n : queue[i] = t})
            /\ \A i \in 1 .. n, j \in n + 1 .. Len(queue) :
                   ~goesBefore(txs, queue[j], queue[i])]_vars

\* A drain has submitted the entry of priority 1 that was added later and
\* has left the earlier entry of priority 0 waiting
C30_Witness ==
    /\ processing
    /\ Len(batch) = DrainBatchSize
    /\ Len(queue) > DrainBatchSize
    /\ \E j \in DrainBatchSize + 1 .. Len(queue) :
        /\ txs[queue[j]].priority < txs[batch[1].tx].priority
        /\ txs[queue[j]].timestamp < txs[batch[1].tx].timestamp


\* C31: the queue never holds two entries with the same transaction id, and
\* a transaction that failed and waits for its retry delay is not in the
\* queue before the delay has elapsed
C31_NoDuplicateNoEarlyRetry ==
    /\ \A i, j \in 1 .. Len(queue) : i # j => queue[i] # queue[j]
    /\ \A t \in pushTimers :
          t.due > now => \A i \in 1 .. Len(queue) : queue[i] # t.tx


\* C32: after one submission of a transaction id has succeeded, no further
\* submission of that id is started
C32_NoSubmissionAfterSuccess ==
    [][\A t \in TxIds :
          txs[t].succeeded => txs'[t].submitted = txs[t].submitted]_vars


\* C33: after destroy() the queue stays empty and no submission is started,
\* whether or not a drain was in flight or retry timers were pending
C33_DestroyedStaysIdle ==
    [][processDue = NoTimer
          => /\ queue' = <<>>
             /\ \A t \in TxIds : txs'[t].submitted = txs[t].submitted]_vars


\* The step is the start of a rebalance sweep after something else happened
sweepStarts == sweep.pc = "idle" /\ row'.n >= 1 /\ row' # row

\* The sweep sees for the open position a score below the score at open and
\* below minCreditScoreToClose, while the amount is below maxHedgeAmount
needsTopUp(position) ==
    /\ position.status = "open"
    /\ score[position.id.borrowerId] < position.creditScore
    /\ score[position.id.borrowerId] < minCreditScoreToClose
    /\ RLt(position.amount, Num(maxHedgeAmount))

\* C34: a rebalance sweep that comes to an open position whose borrower's
\* score is below the score at open and below minCreditScoreToClose, the
\* position's amount being below maxHedgeAmount, calls evaluateAndHedge for
\* that borrower with a positive amount
C34_SweepTopsUp ==
    [][sweepStarts =>
        \A j \in 1 .. Len(positions) :
            (/\ needsTopUp(positions[j])
             /\ \A i \in 1 .. j - 1 : ~needsTopUp(positions[i])
             /\ \A i \in 1 .. j - 1 :
                    ~(positions[i].status = "open" /\ shouldClose(positions[i])))
                => /\ sweep'.pc = "call"
                   /\ sweep'.idx = j
                   /\ calls'[sweep'.child].pc \in {"price", "order"}
                        => /\ calls'[sweep'.child].borrowerId
                                = positions[j].id.borrowerId
                           /\ RLt(Zero, calls'[sweep'.child].loanAmount)]_vars


\* The step places the market order of the evaluateAndHedge invocation c
placesOrder(c) == ~calls[c].orderPlaced /\ calls'[c].orderPlaced

\* C35: for one borrower the market orders of the evaluateAndHedge calls are
\* placed in the order in which the rate limiter admitted the calls: no call
\* places its order after a call for the same borrower that was admitted
\* later has placed its own
C35_OrdersInAdmissionOrder ==
    [][\A c, d \in CallIds :
          (/\ placesOrder(d)
           /\ calls[c].pc = "order"
           /\ calls[c].borrowerId = calls'[d].borrowerId)
              => calls[c].ticket < calls'[d].ticket]_vars


\* The step starts the check k from the retry timer t
retryStarts(k, t) ==
    /\ t \in retryTimers
    /\ t \notin retryTimers'
    /\ checks[k].pc = "idle"
    /\ checks'[k].borrowerId = t.borrowerId
    /\ checks'[k].retryCount = t.retryCount

\* C36: when evaluateAndHedge has failed with a rate-limit denial during a
\* check of a borrower, the monitor makes no further create_hedge_position
\* submission and no further evaluateAndHedge call for the borrower before
\* the next scheduled tick: the retry that the catch block has scheduled
\* does not get to triggerHedge
C36_NoHedgeRetryAfterDenial ==
    [][\A k \in CheckIds :
          \A t \in retryTimers :
              (retryStarts(k, t) /\ t.cause = "RateLimit")
                  => checks'[k].pc \notin {"ledger", "hedge"}]_vars



\* the rebalance timers that fire
activeRebalanceTimers == {t \in rebalanceTimers : ~t.cleared}

\* C37: after any sequence of construction, updateConfig and destroy at most
\* one rebalance timer is active, its period is the rebalanceInterval of the
\* latest config, and no timer older than the one updateConfig has made is
\* left running
C37_OneRebalanceTimer ==
    /\ Cardinality(activeRebalanceTimers) <= 1
    /\ \A t \in activeRebalanceTimers :
          t.period = rebalanceInterval /\ t.id = rebalanceTimer

\* updateConfig has restarted the timer with another period, after a destroy
\* and an earlier updateConfig
C37_Witness ==
    /\ Cardinality(rebalanceTimers) >= 3
    /\ rebalanceTimer = Cardinality(rebalanceTimers)
    /\ rebalanceInterval # defaultRebalanceInterval
    /\ \E t \in rebalanceTimers : t.cleared /\ t.period = rebalanceInterval
    /\ serviceCalls > Cardinality(rebalanceTimers) - 1


\* C38: in SmartCache stats.totalSize is the sum of the sizes of the stored
\* entries and stats.itemCount is their number, after any sequence of set
\* (on a key that is present, too), get, delete, cleanup and eviction
C38_StatsMatchEntries ==
    /\ smartStats.totalSize = sizesFrom(smartItems, 1)
    /\ smartStats.itemCount = Len(smartItems)

\* C39: SmartCache.set returns for every item whose size is at most maxSize:
\* its eviction loop ends in every state of the cache
C39_SetTerminates == (smartSet.pc = "loop") ~> (smartSet.pc = "idle")


(* ------------------------------------ CreditMonitor: monitored means checked *)

\* C40: after any sequence of startMonitoring, stopMonitoring and
\* updateConfig every borrower that monitoringMap holds has an active
\* recurring check: the interval timer that the Map stores for the borrower
\* is one that fires (after updateConfig, too)
C40_MonitoredHasSchedule ==
    \A b \in Borrowers :
        monitoringMap[b].armed
            => \E t \in liveIntervals : t.id = monitoringMap[b].id /\ t.borrowerId = b

====
